---- MODULE Spec2Model ----
(***************************************************************************)
(* A model of the sarac compiler: MIR lowering (sarac/ir/mir.py), the MIR   *)
(* optimizer (sarac/ir/mir_optimizer.py), the symbol pass                  *)
(* (sarac/analysis/symboltable.py, table.py), the type pass                *)
(* (sarac/analysis/semantic.py), the parser's error handling               *)
(* (sarac/frontend/parser.py), the error collector (sarac/utils/error.py)  *)
(* and the LLVM-IR emitter (sarac/ir/llvm.py).  Each phase has its own     *)
(* variables and its own specification; the variables of the other phases  *)
(* are held still while one phase runs.                                    *)
(*                                                                         *)
(* pc, ast, lowered, optimized and reoptimized are the MIR pipeline run on *)
(* one function.  The symbol pass runs on a translation unit (unit):       *)
(* frames is the visitor's call stack (the visits still to make and the    *)
(* returns still to come), scope_stack, offset and errors are the fields   *)
(* of SymbolTable, BuildSymbolTableVisitor and the error collector, and    *)
(* hist records, for every scope, the node that opened it and, for every   *)
(* node left, the stack depth before and after.  annotations holds, in     *)
(* visit order, the attributes the pass attached to the nodes it resolved. *)
(* typc and typed belong to the type pass, parpc, source, tokens and       *)
(* error_count to the parser, reppc and reported to the error reports.     *)
(* The emitter runs on the MIR functions of a module (mir_functions):      *)
(* emitter holds the fields of LLVMGenerator, cursor the function, block   *)
(* and instruction its loops are at, empc the loop it is in.  lexpc,       *)
(* lexdata, lexpos and lexed belong to the lexer, genpc, type_a, type_b,   *)
(* type_c and generalized to generalize_type; dsepc, mir_func and          *)
(* stores_eliminated are one run of the dead store elimination pass, and   *)
(* dagpc, dag_in and dag_out the AST optimizer run on a function, with the *)
(* MIR lowered from the function before it (mir_before) and after it       *)
(* (mir_after).                                                            *)
(*                                                                         *)
(* AST nodes are records tagged by k.  An optional child is a sequence of  *)
(* length 0 or 1.  MIR temporaries and labels are the strings the code     *)
(* builds ("t0", "BB0", "entry").                                          *)
(***************************************************************************)
EXTENDS Integers, Sequences, FiniteSets, TLC

VARIABLES pc, ast, lowered, optimized, reoptimized,
          sympc, unit, frames, scope_stack, offset, errors, collect_mode, hist,
          annotations,
          typc, typed,
          parpc, source, tokens, error_count,
          reppc, reported,
          empc, mir_functions, emitter, cursor,
          lexpc, lexdata, lexpos, lexed,
          genpc, type_a, type_b, type_c, generalized,
          dsepc, mir_func, stores_eliminated,
          dagpc, dag_in, dag_out, mir_before, mir_after

\* the MIR pipeline's variables and the symbol pass's variables
mirVars == <<pc, ast, lowered, optimized, reoptimized>>
symVars == <<sympc, unit, frames, scope_stack, offset, errors, collect_mode,
             hist, annotations>>
\* the variables of the phases modelled on their own
typeVars == <<typc, typed>>
parseVars == <<parpc, source, tokens, error_count>>
reportVars == <<reppc, reported>>
emitVars == <<empc, mir_functions, emitter, cursor>>
lexVars == <<lexpc, lexdata, lexpos, lexed>>
genVars == <<genpc, type_a, type_b, type_c, generalized>>
dseVars == <<dsepc, mir_func, stores_eliminated>>
\* the variables of the single passes run on their own
dagVars == <<dagpc, dag_in, dag_out, mir_before, mir_after>>
lateVars == <<dseVars, dagVars>>
\* the variables of the phases added last
restVars == <<lexVars, genVars, lateVars>>
phaseVars == <<typeVars, parseVars, reportVars, emitVars, restVars>>
vars == <<mirVars, symVars, phaseVars>>

(***************************************************************************)
(* Constant values.  A constant of the source is the lexeme the parser     *)
(* stored (form "lexeme") with the type the parser recorded; a constant    *)
(* made by the compiler itself is a Python number (form "number").  A      *)
(* number is the rational n/d in lowest terms; ty says int or float.       *)
(***************************************************************************)
NoVal == [form |-> "none", ty |-> "none", n |-> 0, d |-> 1]
IntLit(i) == [form |-> "lexeme", ty |-> "int", n |-> i, d |-> 1]
FloatLit(i, j) == [form |-> "lexeme", ty |-> "float", n |-> i, d |-> j]
PyInt(i) == [form |-> "number", ty |-> "int", n |-> i, d |-> 1]
PyFloat(i, j) == [form |-> "number", ty |-> "float", n |-> i, d |-> j]

(***************************************************************************)
(* AST (sarac/frontend/ast.py).                                            *)
(***************************************************************************)
Constant(v) == [k |-> "const", val |-> v]
Reference(name) == [k |-> "ref", name |-> name]
BinaryOperator(op, l, r) == [k |-> "bin", op |-> op, l |-> l, r |-> r]
UnaryOperator(op, e) == [k |-> "un", op |-> op, e |-> e]
FunctionCall(name, args) == [k |-> "call", name |-> name, args |-> args]

Assignment(name, e) == [k |-> "assign", name |-> name, e |-> e]
Return(oe) == [k |-> "return", oe |-> oe]
If(c, t, oel) == [k |-> "if", c |-> c, t |-> t, oel |-> oel]
While(c, s) == [k |-> "while", c |-> c, s |-> s]
For(oinit, ocond, ostep, s) ==
    [k |-> "for", oinit |-> oinit, ocond |-> ocond, ostep |-> ostep, s |-> s]
Declaration(ty, name, oinit) ==
    [k |-> "decl", ty |-> ty, name |-> name, oinit |-> oinit]
CompoundStatement(decls, stmts) ==
    [k |-> "compound", decls |-> decls, stmts |-> stmts]
FunctionDefinition(name, rt, params, body) ==
    [k |-> "fdef", name |-> name, rt |-> rt, params |-> params, body |-> body]

IsExpression(node) == node.k \in {"const", "ref", "bin", "un", "call"}

(***************************************************************************)
(* MIR (sarac/ir/mir.py).  An instruction keeps its operands (temporaries, *)
(* labels, variable and function names: all strings) in args; the operand  *)
(* of const is a value and is kept in val.  res = "" is Python's None.     *)
(***************************************************************************)
Instruction(op, args, res, val) ==
    [op |-> op, args |-> args, res |-> res, val |-> val]

BasicBlock(label) ==
    [label |-> label, instructions |-> <<>>,
     predecessors |-> <<>>, successors |-> <<>>]

Terminators == {"return", "retval", "jump", "branch"}

\* class Op
Op ==
    {"add", "sub", "mul", "div", "mod", "neg",
     "eq", "ne", "lt", "le", "gt", "ge",
     "and", "or", "not",
     "load", "store", "const",
     "branch", "jump", "return", "retval",
     "call", "param"}

\* MIRFunction plus the generator's current_block (cur), by label.
MIRFunction(name, rt, params) ==
    [name |-> name, return_type |-> rt, parameters |-> params,
     blocks |-> <<>>, temp_counter |-> 0, label_counter |-> 0, cur |-> ""]

NoFunction == MIRFunction("", "", <<>>)

BlockIndex(f, label) ==
    CHOOSE i \in 1..Len(f.blocks) : f.blocks[i].label = label

HasBlock(f, label) == \E i \in 1..Len(f.blocks) : f.blocks[i].label = label

BlockOf(f, label) == f.blocks[BlockIndex(f, label)]

\* create_block with an explicit label
create_named_block(f, label) ==
    [f EXCEPT !.blocks = Append(@, BasicBlock(label))]

new_label(f) == "BB" \o ToString(f.label_counter)

\* create_block(): new_label, then append the block
create_block(f) ==
    [f EXCEPT !.blocks = Append(@, BasicBlock(new_label(f))),
              !.label_counter = @ + 1]

new_temp(f) == "t" \o ToString(f.temp_counter)

\* block.add_instruction(instr) on the block labelled label
add_instruction(f, label, instr) ==
    [f EXCEPT !.blocks[BlockIndex(f, label)].instructions = Append(@, instr)]

\* self.current_block.add_instruction(instr)
emit(f, instr) == add_instruction(f, f.cur, instr)

\* emit an instruction whose result is a fresh temporary
emit_result(f, op, args, val) ==
    [emit(f, Instruction(op, args, new_temp(f), val))
        EXCEPT !.temp_counter = @ + 1]

BinaryOpMap(op) ==
    CASE op = "+" -> "add" [] op = "-" -> "sub" [] op = "*" -> "mul"
      [] op = "/" -> "div" [] op = "%" -> "mod" [] op = "==" -> "eq"
      [] op = "!=" -> "ne" [] op = "<" -> "lt" [] op = "<=" -> "le"
      [] op = ">" -> "gt" [] op = ">=" -> "ge" [] OTHER -> op

UnaryOpMap(op) ==
    CASE op = "-" -> "neg" [] op = "!" -> "not" [] OTHER -> op

RECURSIVE visit_expression(_, _)
RECURSIVE visit_arguments(_, _, _)

\* The pair <<function after the visit, temporary returned>>.
visit_expression(f, node) ==
    CASE node.k = "const" ->
            <<emit_result(f, "const", <<>>, node.val), new_temp(f)>>
      [] node.k = "ref" ->
            <<emit_result(f, "load", <<node.name>>, NoVal), new_temp(f)>>
      [] node.k = "bin" ->
            LET lft == visit_expression(f, node.l)
                rgt == visit_expression(lft[1], node.r)
            IN  <<emit_result(rgt[1], BinaryOpMap(node.op),
                              <<lft[2], rgt[2]>>, NoVal),
                  new_temp(rgt[1])>>
      [] node.k = "un" ->
            LET opd == visit_expression(f, node.e)
            IN  <<emit_result(opd[1], UnaryOpMap(node.op), <<opd[2]>>, NoVal),
                  new_temp(opd[1])>>
      [] node.k = "call" ->
            LET g == visit_arguments(f, node.args, 1)
            IN  <<emit_result(g, "call", <<node.name>>, NoVal), new_temp(g)>>

\* each argument is lowered and followed by its param
visit_arguments(f, args, i) ==
    IF i > Len(args) THEN f
    ELSE LET a == visit_expression(f, args[i])
         IN  visit_arguments(
                 emit(a[1], Instruction("param", <<a[2]>>, "", NoVal)),
                 args, i + 1)

visit_declaration(f, node) ==
    IF Len(node.oinit) = 0 THEN f
    ELSE LET v == visit_expression(f, node.oinit[1])
         IN  emit(v[1], Instruction("store", <<node.name, v[2]>>, "", NoVal))

visit_assignment(f, node) ==
    LET v == visit_expression(f, node.e)
    IN  emit(v[1], Instruction("store", <<node.name, v[2]>>, "", NoVal))

visit_return(f, node) ==
    IF Len(node.oe) > 0
    THEN LET v == visit_expression(f, node.oe[1])
         IN  emit(v[1], Instruction("retval", <<v[2]>>, "", NoVal))
    ELSE emit(f, Instruction("return", <<>>, "", NoVal))

\* "the current block ends with return": the test visit_if makes
EndsWithReturn(f) ==
    LET ins == BlockOf(f, f.cur).instructions
    IN  Len(ins) > 0 /\ ins[Len(ins)].op \in {"return", "retval"}

Jump(label) == Instruction("jump", <<label>>, "", NoVal)
Branch(c, l1, l2) == Instruction("branch", <<c, l1, l2>>, "", NoVal)

RECURSIVE visit_statement(_, _)
RECURSIVE visit_statements(_, _, _)
RECURSIVE visit_declarations(_, _, _)

visit_declarations(f, decls, i) ==
    IF i > Len(decls) THEN f
    ELSE visit_declarations(visit_declaration(f, decls[i]), decls, i + 1)

visit_statements(f, stmts, i) ==
    IF i > Len(stmts) THEN f
    ELSE visit_statements(visit_statement(f, stmts[i]), stmts, i + 1)

visit_compound_statement(f, node) ==
    visit_statements(visit_declarations(f, node.decls, 1), node.stmts, 1)

\* a branch of an if: a compound statement is lowered as one, anything else
\* as a statement
visit_branch(f, node) ==
    IF node.k = "compound" THEN visit_compound_statement(f, node)
    ELSE visit_statement(f, node)

(***************************************************************************)
(* visit_if, visit_while and visit_for run in stages; between two stages   *)
(* the record s holds the function (s.f) and the method's local variables. *)
(***************************************************************************)

\* then_block and else_block are created
IfLocals(f, node) ==
    [f |-> IF Len(node.oel) > 0 THEN create_block(create_block(f))
           ELSE create_block(f),
     has_else |-> Len(node.oel) > 0,
     entry_block |-> f.cur,
     then_block |-> new_label(f),
     else_block |-> new_label(create_block(f)),
     cond_temp |-> "",
     then_returns |-> FALSE,
     else_returns |-> FALSE]

\* the condition is lowered into the entry block
IfCondition(s, node) ==
    LET c == visit_expression(s.f, node.c)
    IN  [s EXCEPT !.f = [c[1] EXCEPT !.cur = s.then_block],
                  !.cond_temp = c[2]]

\* then_returns: does the block lowering ended in end with a return?
IfThenDone(s, g) == [s EXCEPT !.f = g, !.then_returns = EndsWithReturn(g)]

IfThen(s, node) == IfThenDone(s, visit_branch(s.f, node.t))

IfElseDone(s, g) == [s EXCEPT !.f = g, !.else_returns = EndsWithReturn(g)]

IfElse(s, node) ==
    IF s.has_else
    THEN IfElseDone(s, visit_branch([s.f EXCEPT !.cur = s.else_block],
                                    node.oel[1]))
    ELSE s

\* the merge block, the jumps to it from then_block and else_block, and
\* the branch at the end of the entry block
IfMerge(s) ==
    LET has_merge == ~s.then_returns \/ (s.has_else /\ ~s.else_returns)
        merge_block == new_label(s.f)
        f5 == IF has_merge THEN create_block(s.f) ELSE s.f
        f6 == IF has_merge /\ ~s.then_returns
              THEN add_instruction(f5, s.then_block, Jump(merge_block))
              ELSE f5
        f7 == IF has_merge /\ s.has_else /\ ~s.else_returns
              THEN add_instruction(f6, s.else_block, Jump(merge_block))
              ELSE f6
        branch_instr ==
            IF s.has_else THEN Branch(s.cond_temp, s.then_block, s.else_block)
            ELSE IF has_merge THEN Branch(s.cond_temp, s.then_block, merge_block)
            ELSE Branch(s.cond_temp, s.then_block, s.then_block)
        f8 == add_instruction(f7, s.entry_block, branch_instr)
    IN  IF has_merge THEN [f8 EXCEPT !.cur = merge_block] ELSE f8

visit_if(f, node) ==
    IfMerge(IfElse(IfThen(IfCondition(IfLocals(f, node), node), node), node))

\* cond_block, body_block and merge_block are created; the current block
\* jumps to cond_block
WhileLocals(f) ==
    [f |-> emit(create_block(create_block(create_block(f))),
                Jump(new_label(f))),
     cond_block |-> new_label(f),
     body_block |-> new_label(create_block(f)),
     merge_block |-> new_label(create_block(create_block(f)))]

WhileCondition(s, node) ==
    LET c == visit_expression([s.f EXCEPT !.cur = s.cond_block], node.c)
    IN  [s EXCEPT !.f = emit(c[1], Branch(c[2], s.body_block, s.merge_block))]

WhileBody(s, node) ==
    [s EXCEPT !.f = visit_statement([s.f EXCEPT !.cur = s.body_block], node.s)]

\* the jump back to cond_block is appended whatever the body ended with
WhileEnd(s) == [emit(s.f, Jump(s.cond_block)) EXCEPT !.cur = s.merge_block]

visit_while(f, node) ==
    WhileEnd(WhileBody(WhileCondition(WhileLocals(f), node), node))

\* the blocks after init_block, which is created and never used again
ForBlocks(f, has_incr) ==
    [f |-> IF has_incr
           THEN create_block(create_block(create_block(create_block(f))))
           ELSE create_block(create_block(create_block(f))),
     has_incr |-> has_incr,
     cond_block |-> new_label(f),
     body_block |-> new_label(create_block(f)),
     incr_block |-> new_label(create_block(create_block(f))),
     merge_block |-> IF has_incr
                     THEN new_label(create_block(create_block(create_block(f))))
                     ELSE new_label(create_block(create_block(f)))]

ForLocals(f, node) == ForBlocks(create_block(f), Len(node.ostep) > 0)

ForInit(s, node) ==
    IF Len(node.oinit) > 0
    THEN [s EXCEPT !.f = emit(visit_statement(s.f, node.oinit[1]),
                              Jump(s.cond_block))]
    ELSE [s EXCEPT !.f = emit(s.f, Jump(s.cond_block))]

ForCondition(s, node) ==
    IF Len(node.ocond) > 0
    THEN LET c == visit_expression([s.f EXCEPT !.cur = s.cond_block],
                                   node.ocond[1])
         IN  [s EXCEPT !.f = emit(c[1], Branch(c[2], s.body_block,
                                               s.merge_block))]
    ELSE [s EXCEPT !.f = emit([s.f EXCEPT !.cur = s.cond_block],
                              Jump(s.body_block))]

ForBody(s, node) ==
    [s EXCEPT !.f = visit_statement([s.f EXCEPT !.cur = s.body_block], node.s)]

ForStepDone(s, g) == [s EXCEPT !.f = emit(g, Jump(s.cond_block))]

ForStep(s, node) ==
    IF s.has_incr
    THEN ForStepDone(s, visit_statement(
                            [emit(s.f, Jump(s.incr_block))
                                EXCEPT !.cur = s.incr_block],
                            node.ostep[1]))
    ELSE ForStepDone(s, s.f)

ForEnd(s) == [s.f EXCEPT !.cur = s.merge_block]

visit_for(f, node) ==
    ForEnd(ForStep(ForBody(ForCondition(ForInit(ForLocals(f, node), node),
                                        node), node), node))

\* Anything that is not an assignment, return, if, while, for or call goes
\* to accept_children, and the generic visit emits nothing for any node
\* below a function definition: a compound statement given as a statement
\* (a loop body, a nested block) leaves the function as it is.
visit_statement(f, node) ==
    CASE node.k = "assign" -> visit_assignment(f, node)
      [] node.k = "return" -> visit_return(f, node)
      [] node.k = "if" -> visit_if(f, node)
      [] node.k = "while" -> visit_while(f, node)
      [] node.k = "for" -> visit_for(f, node)
      [] node.k = "call" -> visit_expression(f, node)[1]
      [] OTHER -> f

ParameterNames(params) == [i \in 1..Len(params) |-> params[i].name]

\* the implicit return, given only when lowering ended in the entry block
\* and that block has no terminator at its end
ImplicitReturn(f1, node) ==
    LET entry == BlockOf(f1, "entry").instructions
    IN  IF f1.cur = "entry"
           /\ (Len(entry) = 0 \/ entry[Len(entry)].op \notin Terminators)
        THEN IF node.rt # "void"
             THEN emit(emit_result(f1, "const", <<>>, PyInt(0)),
                       Instruction("retval", <<new_temp(f1)>>, "", NoVal))
             ELSE emit(f1, Instruction("return", <<>>, "", NoVal))
        ELSE f1

\* the function with its entry block, where lowering starts
EnterFunction(node) ==
    [create_named_block(
         MIRFunction(node.name, node.rt, ParameterNames(node.params)),
         "entry") EXCEPT !.cur = "entry"]

visit_function_definition(node) ==
    ImplicitReturn(visit_compound_statement(EnterFunction(node), node.body),
                   node)

(***************************************************************************)
(* The MIR optimizer (sarac/ir/mir_optimizer.py).  The CFG lists hold      *)
(* block objects in the code; labels are unique within a lowered function, *)
(* so the model holds the labels.                                          *)
(***************************************************************************)
SeqContains(s, x) == \E i \in 1..Len(s) : s[i] = x

RECURSIVE Dedup(_)
\* the members of s in order of first occurrence ("if x not in list: append")
Dedup(s) ==
    IF Len(s) = 0 THEN <<>>
    ELSE LET front == Dedup(SubSeq(s, 1, Len(s) - 1))
         IN  IF SeqContains(front, s[Len(s)]) THEN front
             ELSE Append(front, s[Len(s)])

RECURSIVE Flatten(_)
Flatten(ss) == IF Len(ss) = 0 THEN <<>> ELSE Head(ss) \o Flatten(Tail(ss))

\* the labels an instruction wires up, in the order _build_cfg reads them
Targets(instr) ==
    CASE instr.op = "jump" -> IF Len(instr.args) > 0 THEN <<instr.args[1]>>
                              ELSE <<>>
      [] instr.op = "branch" ->
            IF Len(instr.args) >= 2
            THEN <<instr.args[2]>> \o
                 (IF Len(instr.args) > 2 THEN <<instr.args[3]>> ELSE <<>>)
            ELSE <<>>
      [] OTHER -> <<>>

\* the targets of every jump and branch of a block (all its instructions,
\* also those behind a terminator) that name a block of the function
BlockTargets(f, b) ==
    SelectSeq(Flatten([i \in 1..Len(b.instructions) |->
                          Targets(b.instructions[i])]),
              LAMBDA l : HasBlock(f, l))

\* block "entry", or the first block
EntryLabel(f) ==
    IF HasBlock(f, "entry") THEN "entry"
    ELSE IF Len(f.blocks) > 0 THEN f.blocks[1].label ELSE ""

build_cfg(f) ==
    LET succ(b) == Dedup(BlockTargets(f, b))
        \* sources in block order; a block is appended to a target's
        \* predecessors when it first reaches it
        pred(b) ==
            LET all == [i \in 1..Len(f.blocks) |->
                          IF SeqContains(BlockTargets(f, f.blocks[i]), b.label)
                          THEN <<f.blocks[i].label>> ELSE <<>>]
            IN  Flatten(all)
    IN  [f EXCEPT !.blocks =
            [i \in 1..Len(f.blocks) |->
                [f.blocks[i] EXCEPT !.successors = succ(f.blocks[i]),
                                    !.predecessors = pred(f.blocks[i])]]]

\* the instructions up to and including the first terminator
TrimBlock(ins) ==
    IF \E i \in 1..Len(ins) : ins[i].op \in Terminators
    THEN SubSeq(ins, 1,
                CHOOSE i \in 1..Len(ins) :
                    /\ ins[i].op \in Terminators
                    /\ \A j \in 1..(i - 1) : ins[j].op \notin Terminators)
    ELSE ins

\* every pass yields the function and its "changed" flag
PassResult(f, changed) == [f |-> f, changed |-> changed]

remove_dead_instructions(f) ==
    LET g == [f EXCEPT !.blocks =
                [i \in 1..Len(f.blocks) |->
                    [f.blocks[i] EXCEPT
                        !.instructions = TrimBlock(f.blocks[i].instructions)]]]
    IN  PassResult(g, \E i \in 1..Len(f.blocks) :
                         Len(g.blocks[i].instructions)
                             < Len(f.blocks[i].instructions))

RECURSIVE ReachFrom(_, _, _)
\* the labels visited by the search from the labels todo along successors
ReachFrom(f, seen, todo) ==
    IF todo = {} THEN seen
    ELSE LET l == CHOOSE x \in todo : TRUE
             next == IF HasBlock(f, l)
                     THEN {BlockOf(f, l).successors[i] :
                              i \in 1..Len(BlockOf(f, l).successors)}
                     ELSE {}
         IN  ReachFrom(f, seen \cup {l},
                       (todo \cup next) \ (seen \cup {l}))

remove_unreachable_blocks(f) ==
    IF Len(f.blocks) = 0 THEN PassResult(f, FALSE)
    ELSE LET reachable == ReachFrom(f, {}, {EntryLabel(f)})
             kept == SelectSeq(f.blocks, LAMBDA b : b.label \in reachable)
         IN  PassResult([f EXCEPT !.blocks = kept],
                        Len(kept) < Len(f.blocks))

(***************************************************************************)
(* Python arithmetic on the numbers _constant_folding meets.  An int is    *)
(* unbounded; a float is modelled by the exact rational it stands for.     *)
(***************************************************************************)
Abs(i) == IF i < 0 THEN -i ELSE i

RECURSIVE Gcd(_, _)
Gcd(a, b) == IF b = 0 THEN a ELSE Gcd(b, a % b)

\* floor(a / b) for b # 0: Python's // on ints
PyFloorDiv(a, b) ==
    IF b > 0 THEN a \div b ELSE (-a) \div (-b)

\* Python's % on ints: the result has the sign of the divisor
PyMod(a, b) == a - b * PyFloorDiv(a, b)

\* the rational i/j (j # 0) in lowest terms with a positive denominator
Rational(ty, i, j) ==
    LET g == Gcd(Abs(i), Abs(j))
        sgn == IF j < 0 THEN -1 ELSE 1
    IN  [form |-> "number", ty |-> ty,
         n |-> sgn * (i \div g), d |-> sgn * (j \div g)]

IsNumber(v) == v.form = "number"
IsPyInt(v) == v.form = "number" /\ v.ty = "int"

\* int(s) when the lexeme is all digits, else float(s); a lexeme float()
\* rejects stays a string, which no fold accepts
ToNumber(v) ==
    CASE v.form = "number" -> v
      [] v.form = "lexeme" /\ v.ty = "int" -> PyInt(v.n)
      [] v.form = "lexeme" /\ v.ty = "float" -> Rational("float", v.n, v.d)
      [] OTHER -> NoVal

BothInt(a, b) == a.ty = "int" /\ b.ty = "int"
ResultType(a, b) == IF BothInt(a, b) THEN "int" ELSE "float"

PyAdd(a, b) == Rational(ResultType(a, b), a.n * b.d + b.n * a.d, a.d * b.d)
PySub(a, b) == Rational(ResultType(a, b), a.n * b.d - b.n * a.d, a.d * b.d)
PyMul(a, b) == Rational(ResultType(a, b), a.n * b.n, a.d * b.d)

\* left_val // right_val for two ints, left_val / right_val otherwise
PyDiv(a, b) ==
    IF BothInt(a, b) THEN PyInt(PyFloorDiv(a.n, b.n))
    ELSE Rational("float", a.n * b.d, a.d * b.n)

\* left_val % right_val: a - floor(a / b) * b
PyModulo(a, b) ==
    IF BothInt(a, b) THEN PyInt(PyMod(a.n, b.n))
    ELSE LET q == PyFloorDiv(a.n * b.d, a.d * b.n)
         IN  Rational("float", a.n * b.d * b.d - q * b.n * a.d * b.d,
                      a.d * b.d * b.d)

PyNeg(a) == [a EXCEPT !.n = -a.n]
IsZero(a) == a.n = 0
PyLess(a, b) == a.n * b.d < b.n * a.d
PyEqual(a, b) == a.n * b.d = b.n * a.d
Bool01(b) == PyInt(IF b THEN 1 ELSE 0)

ArithmeticOps == {"add", "sub", "mul", "div", "mod"}
UnaryOps == {"neg", "not"}
ComparisonOps == {"eq", "ne", "lt", "le", "gt", "ge"}
SkippedOps == {"jump", "branch", "return", "retval", "call", "param"}

\* the value an operand stands for: constants.get(temp), then the string
\* conversion; NoVal when the temporary is not a known constant
OperandValue(constants, t) ==
    IF t \in DOMAIN constants THEN ToNumber(constants[t]) ELSE NoVal

\* the result of the arithmetic or comparison op on two numbers; the
\* divisor of div and mod is not zero
FoldBinary(op, a, b) ==
    CASE op = "add" -> PyAdd(a, b)
      [] op = "sub" -> PySub(a, b)
      [] op = "mul" -> PyMul(a, b)
      [] op = "div" -> PyDiv(a, b)
      [] op = "mod" -> PyModulo(a, b)
      [] op = "eq" -> Bool01(PyEqual(a, b))
      [] op = "ne" -> Bool01(~PyEqual(a, b))
      [] op = "lt" -> Bool01(PyLess(a, b))
      [] op = "le" -> Bool01(~PyLess(b, a))
      [] op = "gt" -> Bool01(PyLess(b, a))
      [] op = "ge" -> Bool01(~PyLess(a, b))

\* -operand_val, and 0 if operand_val else 1
FoldUnary(op, a) ==
    IF op = "neg" THEN PyNeg(a) ELSE Bool01(IsZero(a))

\* a folder that does not look at the divisor: a division or a modulo by
\* zero becomes the constant 0
FoldValueThroughZero(constants, instr) ==
    IF instr.op \in ArithmeticOps \cup ComparisonOps /\ Len(instr.args) >= 2
    THEN LET a == OperandValue(constants, instr.args[1])
             b == OperandValue(constants, instr.args[2])
         IN  IF ~(IsNumber(a) /\ IsNumber(b)) THEN NoVal
             ELSE IF instr.op \in {"div", "mod"} /\ IsZero(b) THEN PyInt(0)
             ELSE FoldBinary(instr.op, a, b)
    ELSE IF instr.op \in UnaryOps /\ Len(instr.args) >= 1
    THEN LET a == OperandValue(constants, instr.args[1])
         IN  IF ~IsNumber(a) THEN NoVal ELSE FoldUnary(instr.op, a)
    ELSE NoVal

\* the value the instruction folds to, or NoVal when it is kept
FoldValue(constants, instr) ==
    IF instr.op \in ArithmeticOps \cup ComparisonOps /\ Len(instr.args) >= 2
    THEN LET a == OperandValue(constants, instr.args[1])
             b == OperandValue(constants, instr.args[2])
         IN  IF ~(IsNumber(a) /\ IsNumber(b)) THEN NoVal
             ELSE IF instr.op \in {"div", "mod"} /\ IsZero(b) THEN NoVal
             ELSE FoldBinary(instr.op, a, b)
    ELSE IF instr.op \in UnaryOps /\ Len(instr.args) >= 1
    THEN LET a == OperandValue(constants, instr.args[1])
         IN  IF ~IsNumber(a) THEN NoVal ELSE FoldUnary(instr.op, a)
    ELSE NoVal

\* constants[k] = v
Bind(constants, key, v) ==
    [x \in DOMAIN constants \cup {key} |->
        IF x = key THEN v ELSE constants[x]]

RECURSIVE FoldInstructions(_, _, _, _)
\* one block: the new instruction list, the constants map after it, and
\* whether anything was folded
FoldInstructions(ins, i, constants, acc) ==
    IF i > Len(ins) THEN [ins |-> acc.ins, constants |-> constants,
                          changed |-> acc.changed]
    ELSE LET instr == ins[i]
             v == FoldValue(constants, instr)
         IN  IF instr.op \in SkippedOps
             THEN FoldInstructions(ins, i + 1, constants,
                      [acc EXCEPT !.ins = Append(@, instr)])
             ELSE IF instr.op = "const"
             THEN FoldInstructions(ins, i + 1,
                      IF instr.res # "" THEN Bind(constants, instr.res, instr.val)
                      ELSE constants,
                      [acc EXCEPT !.ins = Append(@, instr)])
             ELSE IF IsNumber(v)
             THEN FoldInstructions(ins, i + 1,
                      IF instr.res # "" THEN Bind(constants, instr.res, v)
                      ELSE constants,
                      [ins |-> Append(acc.ins,
                                      Instruction("const", <<>>, instr.res, v)),
                       changed |-> TRUE])
             ELSE FoldInstructions(ins, i + 1, constants,
                      [acc EXCEPT !.ins = Append(@, instr)])

RECURSIVE FoldBlocks(_, _, _, _)
\* the constants map is one per function: it runs on from block to block
FoldBlocks(f, i, constants, changed) ==
    IF i > Len(f.blocks) THEN PassResult(f, changed)
    ELSE LET r == FoldInstructions(f.blocks[i].instructions, 1, constants,
                                   [ins |-> <<>>, changed |-> FALSE])
         IN  FoldBlocks([f EXCEPT !.blocks[i].instructions = r.ins],
                        i + 1, r.constants, changed \/ r.changed)

EmptyMap == [x \in {} |-> NoVal]

constant_folding(f) == FoldBlocks(f, 1, EmptyMap, FALSE)

\* the store at index i is removed: its variable has no load in the block
\* and no later store in the block
IsDeadStore(ins, i) ==
    /\ ins[i].op = "store"
    /\ Len(ins[i].args) >= 2
    /\ ~\E j \in 1..Len(ins) :
          ins[j].op = "load" /\ Len(ins[j].args) > 0
          /\ ins[j].args[1] = ins[i].args[1]
    /\ ~\E j \in (i + 1)..Len(ins) :
          ins[j].op = "store" /\ Len(ins[j].args) >= 2
          /\ ins[j].args[1] = ins[i].args[1]

RECURSIVE KeepLive(_, _)
KeepLive(ins, i) ==
    IF i > Len(ins) THEN <<>>
    ELSE (IF IsDeadStore(ins, i) THEN <<>> ELSE <<ins[i]>>)
         \o KeepLive(ins, i + 1)

\* every store to a variable the block does not load is taken for dead
IsUnloadedStore(ins, i) ==
    /\ ins[i].op = "store"
    /\ Len(ins[i].args) >= 2
    /\ ~\E j \in 1..Len(ins) :
          ins[j].op = "load" /\ Len(ins[j].args) > 0
          /\ ins[j].args[1] = ins[i].args[1]

RECURSIVE KeepLoaded(_, _)
KeepLoaded(ins, i) ==
    IF i > Len(ins) THEN <<>>
    ELSE (IF IsUnloadedStore(ins, i) THEN <<>> ELSE <<ins[i]>>)
         \o KeepLoaded(ins, i + 1)

dead_store_elimination_every_store(f) ==
    PassResult(
        [f EXCEPT !.blocks =
            [i \in 1..Len(f.blocks) |->
                [f.blocks[i] EXCEPT
                    !.instructions = KeepLoaded(f.blocks[i].instructions, 1)]]],
        \E i \in 1..Len(f.blocks) :
            \E j \in 1..Len(f.blocks[i].instructions) :
                IsUnloadedStore(f.blocks[i].instructions, j))

dead_store_elimination(f) ==
    PassResult(
        [f EXCEPT !.blocks =
            [i \in 1..Len(f.blocks) |->
                [f.blocks[i] EXCEPT
                    !.instructions = KeepLive(f.blocks[i].instructions, 1)]]],
        \E i \in 1..Len(f.blocks) :
            \E j \in 1..Len(f.blocks[i].instructions) :
                IsDeadStore(f.blocks[i].instructions, j))

\* a non-entry block with no instruction, or with one jump and nothing else
IsEmptyBlock(b) ==
    /\ b.label # "entry"
    /\ \/ Len(b.instructions) = 0
       \/ Len(b.instructions) = 1 /\ b.instructions[1].op = "jump"

\* the jump and branch operands of ins that name label, renamed to target
Redirect(ins, label, target) ==
    [i \in 1..Len(ins) |->
        CASE ins[i].op = "jump" /\ Len(ins[i].args) > 0 ->
                [ins[i] EXCEPT !.args[1] = IF @ = label THEN target ELSE @]
          [] ins[i].op = "branch" /\ Len(ins[i].args) >= 2 ->
                [ins[i] EXCEPT !.args =
                    [j \in 1..Len(@) |->
                        IF j \in {2, 3} /\ @[j] = label THEN target ELSE @[j]]]
          [] OTHER -> ins[i]]

\* the block object labelled label
ObjectOf(objs, label) ==
    objs[CHOOSE n \in 1..Len(objs) : objs[n].label = label]

\* where an empty block leads: the target of its jump, or its first
\* successor when it has no instruction; "" when there is none
TargetLabel(empty_block) ==
    IF Len(empty_block.instructions) > 0
    THEN IF Len(empty_block.instructions[1].args) > 0
         THEN empty_block.instructions[1].args[1] ELSE ""
    ELSE IF Len(empty_block.successors) > 0
         THEN empty_block.successors[1] ELSE ""

\* the blocks in the empty block's predecessor list are redirected
RewritePredecessors(objs, empty_block) ==
    [n \in 1..Len(objs) |->
        IF SeqContains(empty_block.predecessors, objs[n].label)
        THEN [objs[n] EXCEPT !.instructions =
                 Redirect(@, empty_block.label, TargetLabel(empty_block))]
        ELSE objs[n]]

RECURSIVE RemoveEmpty(_, _, _, _, _)

RemoveEmptyBlock(objs, present, empties, i, changed, empty_block) ==
    IF TargetLabel(empty_block) = ""
    THEN RemoveEmpty(objs, present, empties, i + 1, changed)
    ELSE RemoveEmpty(RewritePredecessors(objs, empty_block),
                     present \ {empty_block.label}, empties, i + 1, TRUE)

\* objs: every block object of the function as the pass found it, with the
\* instructions the pass has rewritten so far (a block taken out of the
\* function is still an object its successors' predecessor lists hold);
\* present: the labels still in the function's block list.
RemoveEmpty(objs, present, empties, i, changed) ==
    IF i > Len(empties)
    THEN [objs |-> objs, present |-> present, changed |-> changed]
    ELSE RemoveEmptyBlock(objs, present, empties, i, changed,
                          ObjectOf(objs, empties[i]))

\* the labels of the empty blocks, collected before any is removed
EmptyLabels(f) ==
    SelectSeq([i \in 1..Len(f.blocks) |-> f.blocks[i].label],
              LAMBDA l : IsEmptyBlock(BlockOf(f, l)))

WithoutRemoved(f, r) ==
    PassResult([f EXCEPT !.blocks =
                   SelectSeq(r.objs, LAMBDA b : b.label \in r.present)],
               r.changed)

remove_empty_blocks(f) ==
    IF Len(EmptyLabels(f)) = 0 THEN PassResult(f, FALSE)
    ELSE WithoutRemoved(f, RemoveEmpty(f.blocks,
                                       {f.blocks[i].label : i \in 1..Len(f.blocks)},
                                       EmptyLabels(f), 1, FALSE))

max_iterations == 10

\* "if self._pass(...): changed = True"
AfterPass(r, q) == PassResult(q.f, r.changed \/ q.changed)

\* "self._build_cfg(mir_func)  # Rebuild CFG after removing blocks"
Rebuilt(q) == IF q.changed THEN PassResult(build_cfg(q.f), TRUE) ELSE q

RunUnreachableBlocks(r) ==
    AfterPass(r, Rebuilt(remove_unreachable_blocks(r.f)))

RunConstantFolding(r) == AfterPass(r, constant_folding(r.f))

RunDeadStores(r) == AfterPass(r, dead_store_elimination(r.f))

RunEmptyBlocks(r) == AfterPass(r, Rebuilt(remove_empty_blocks(r.f)))

\* one round of the passes, in the order optimize runs them; the CFG is
\* rebuilt only after a pass that removed blocks
OptimizeRound(f) ==
    RunEmptyBlocks(RunDeadStores(RunConstantFolding(RunUnreachableBlocks(
        remove_dead_instructions(f)))))

RECURSIVE OptimizeLoop(_, _)

\* "while changed and iteration < max_iterations": the next round, if any
NextRound(r, iteration) ==
    IF r.changed THEN OptimizeLoop(r.f, iteration + 1) ELSE r.f

OptimizeLoop(f, iteration) ==
    IF iteration >= max_iterations THEN f
    ELSE NextRound(OptimizeRound(f), iteration)

optimize(f) == OptimizeLoop(build_cfg(f), 0)

(***************************************************************************)
(* The programs the compiler is run on.  A function body is a statement    *)
(* list of at most MaxNodes statement nodes in all, nested as the grammar  *)
(* allows; beside them, runs of up to MaxStores assignments in a row.      *)
(***************************************************************************)
MaxNodes == 4
MaxStores == 11

One == Constant(IntLit(1))
Zero == Constant(IntLit(0))
AssignX == Assignment("x", One)
ReturnOne == Return(<<One>>)
EmptyCompound == CompoundStatement(<<>>, <<>>)
\* the step of a for loop: an expression that is not a call
StepExpr == BinaryOperator("+", Reference("i"), One)

LeafStatements == {AssignX, ReturnOne, EmptyCompound}
WhileConditions == {Reference("c"), Zero}
ForSteps == {<<>>, <<StepExpr>>}

RECURSIVE StatementsOfSize(_)
RECURSIVE ListsOfSize(_)

\* the statements made of exactly n statement nodes
StatementsOfSize(n) ==
    IF n = 1 THEN LeafStatements
    ELSE {If(Reference("c"), s, <<>>) : s \in StatementsOfSize(n - 1)}
         \cup {While(c, s) : c \in WhileConditions,
                             s \in StatementsOfSize(n - 1)}
         \cup {For(<<>>, <<Reference("c")>>, st, s) :
                  st \in ForSteps, s \in StatementsOfSize(n - 1)}
         \cup {CompoundStatement(<<>>, l) : l \in ListsOfSize(n - 1)}
         \cup UNION {{If(Reference("c"), s1, <<s2>>) :
                         s1 \in StatementsOfSize(j),
                         s2 \in StatementsOfSize(n - 1 - j)} :
                     j \in 1..(n - 2)}

\* the statement lists made of exactly m statement nodes
ListsOfSize(m) ==
    IF m = 0 THEN {<<>>}
    ELSE UNION {{<<s>> \o l : s \in StatementsOfSize(j),
                              l \in ListsOfSize(m - j)} : j \in 1..m}

ReturnTypes == {"int", "void"}

TreePrograms ==
    {FunctionDefinition("f", rt, <<>>, CompoundStatement(<<>>, l)) :
        rt \in ReturnTypes, l \in UNION {ListsOfSize(m) : m \in 0..MaxNodes}}

StoreRun(n) == [i \in 1..n |-> AssignX]

StorePrograms ==
    {FunctionDefinition("f", "int", <<>>, CompoundStatement(<<>>, StoreRun(n))) :
        n \in 1..MaxStores}

Programs == TreePrograms \cup StorePrograms

(***************************************************************************)
(* The programs constant folding is run on: "return e;" for every          *)
(* expression e of at most MaxExprNodes nodes over a few literals.         *)
(***************************************************************************)
MaxExprNodes == 5

FoldLiterals ==
    {Constant(IntLit(0)), Constant(IntLit(2)), Constant(IntLit(7)),
     Constant(FloatLit(0, 1))}
\* the lexer has no token for %: an AST with it is built by hand, and
\* visit_expression's op_map lowers it to mod
FoldOperators == {"+", "-", "*", "/", "%"}

RECURSIVE ExpressionsOfSize(_)
\* the expressions made of exactly n nodes
ExpressionsOfSize(n) ==
    IF n = 1 THEN FoldLiterals
    ELSE {UnaryOperator("-", e) : e \in ExpressionsOfSize(n - 1)}
         \cup UNION {{BinaryOperator(op, l, r) :
                         op \in FoldOperators,
                         l \in ExpressionsOfSize(j),
                         r \in ExpressionsOfSize(n - 1 - j)} :
                     j \in 1..(n - 2)}

FoldPrograms ==
    {FunctionDefinition("f", "int", <<>>,
                        CompoundStatement(<<>>, <<Return(<<e>>)>>)) :
        e \in UNION {ExpressionsOfSize(n) : n \in 1..MaxExprNodes}}

(***************************************************************************)
(* The symbol table (sarac/analysis/table.py).  A scope is a dict from     *)
(* names to attributes; scope_stack[1] is the global scope.                *)
(***************************************************************************)
FunctionAttributes(ty) == [kind |-> "function", type |-> ty, offset |-> 0]
VariableAttributes(ty, off) == [kind |-> "variable", type |-> ty, offset |-> off]
NoAttributes == [kind |-> "none", type |-> "", offset |-> 0]

EmptyScope == [x \in {} |-> NoAttributes]

RECURSIVE LookupIndex(_, _, _)
\* the index of the innermost scope among the first i that has the name, 0
\* when none has
LookupIndex(stack, name, i) ==
    IF i = 0 THEN 0
    ELSE IF name \in DOMAIN stack[i] THEN i
    ELSE LookupIndex(stack, name, i - 1)

lookup(stack, name) ==
    LET i == LookupIndex(stack, name, Len(stack))
    IN  IF i = 0 THEN NoAttributes ELSE stack[i][name]

\* put without the check of the kind of an outer binding
putWithoutKindCheck(stack, name, attributes) ==
    LET top == stack[Len(stack)]
    IN  IF name \in DOMAIN top
        THEN [stack |-> stack, error |-> "is already defined"]
        ELSE [stack |-> [stack EXCEPT ![Len(stack)] = Bind(top, name, attributes)],
              error |-> ""]

\* the stack after put and the error put reports ("" when it reports none)
put(stack, name, attributes) ==
    LET check_attr == lookup(stack, name)
        top == stack[Len(stack)]
    IN  IF name \in DOMAIN top
        THEN [stack |-> stack, error |-> "is already defined"]
        ELSE IF check_attr # NoAttributes /\ check_attr.kind # attributes.kind
        THEN [stack |-> stack,
              error |-> "redeclared as different kind of symbol"]
        ELSE [stack |-> [stack EXCEPT ![Len(stack)] = Bind(top, name, attributes)],
              error |-> ""]

open_scope(stack) == Append(stack, EmptyScope)
close_scope(stack) == SubSeq(stack, 1, Len(stack) - 1)

(***************************************************************************)
(* The error collector (sarac/utils/error.py): name_error records E0003    *)
(* and, unless the collector is in collect mode, raises.                   *)
(***************************************************************************)
max_errors == 50

NameError(message, name) == [code |-> "E0003", message |-> message, name |-> name]

\* add_error without the cap
add_error_uncapped(errs, e) == Append(errs, e)

add_error(errs, e) == IF Len(errs) >= max_errors THEN errs ELSE Append(errs, e)

(***************************************************************************)
(* The symbol pass (sarac/analysis/symboltable.py).  A frame is a call of  *)
(* visit still to make, or the rest of a visit that has called             *)
(* accept_children: the close_scope of a function definition, the return   *)
(* of a compound statement.  A frame keeps the stack depth at which the    *)
(* node was entered and the number of the scope the node opened.           *)
(***************************************************************************)
NoNode == [k |-> "none"]

VisitFrame(node) == [t |-> "visit", node |-> node, id |-> 0, depth |-> 0]
CloseFrame(id, depth) == [t |-> "close", node |-> NoNode, id |-> id, depth |-> depth]
LeaveFrame(id, depth) == [t |-> "leave", node |-> NoNode, id |-> id, depth |-> depth]

Visits(nodes) == [i \in 1..Len(nodes) |-> VisitFrame(nodes[i])]

\* accept_children that does not descend into the arguments of a call
ChildrenWithoutArguments(node) ==
    CASE node.k = "if" -> <<node.c, node.t>> \o node.oel
      [] node.k = "while" -> <<node.c, node.s>>
      [] node.k = "for" -> node.oinit \o node.ocond \o node.ostep \o <<node.s>>
      [] node.k = "return" -> node.oe
      [] node.k = "bin" -> <<node.l, node.r>>
      [] node.k = "un" -> <<node.e>>
      [] node.k = "assign" -> <<node.e>>
      [] node.k = "decl" -> node.oinit
      [] node.k = "compound" -> node.decls \o node.stmts
      [] OTHER -> <<>>

\* the children accept_children visits, in order; an absent child is
\* skipped, an Identifier and the list nodes do nothing of their own
Children(node) ==
    CASE node.k = "if" -> <<node.c, node.t>> \o node.oel
      [] node.k = "while" -> <<node.c, node.s>>
      [] node.k = "for" -> node.oinit \o node.ocond \o node.ostep \o <<node.s>>
      [] node.k = "return" -> node.oe
      [] node.k = "bin" -> <<node.l, node.r>>
      [] node.k = "un" -> <<node.e>>
      [] node.k = "call" -> node.args
      [] node.k = "assign" -> <<node.e>>
      [] node.k = "decl" -> node.oinit
      [] node.k = "compound" -> node.decls \o node.stmts
      [] OTHER -> <<>>

HistStart == [left |-> <<>>, owners |-> <<0>>, opened |-> 0, stale |-> {}]

\* a scope is opened by a node: it gets the next number
HistOpen(h) ==
    [h EXCEPT !.opened = @ + 1, !.owners = Append(@, h.opened + 1)]

\* a scope is popped and the node numbered id is left
HistLeave(h, kind, id, before, after, popped) ==
    [h EXCEPT !.left = Append(@, [k |-> kind, id |-> id,
                                  before |-> before, after |-> after]),
              !.owners = IF popped THEN SubSeq(@, 1, Len(@) - 1) ELSE @]

LeftIds(h) == {h.left[i].id : i \in 1..Len(h.left)}

\* a lookup of name: it is stale when the scope that answers was opened by
\* a node the visitor has left
HistLookup(h, stack, name) ==
    LET i == LookupIndex(stack, name, Len(stack))
    IN  IF i > 0 /\ h.owners[i] \in LeftIds(h)
        THEN [h EXCEPT !.stale = @ \cup {name}]
        ELSE h

NoVisitor == [raised |-> FALSE, errors |-> <<>>, log |-> <<>>]

TypePassOff ==
    /\ typc = "off"
    /\ typed = NoVisitor

NoSource == [tokens |-> <<>>, complete |-> TRUE]

ParserOff ==
    /\ parpc = "off"
    /\ source = NoSource
    /\ tokens = <<>>
    /\ error_count = 0

ReportsOff ==
    /\ reppc = "off"
    /\ reported = 0

\* LLVMGenerator.__init__ (sarac/ir/llvm.py).  A dictionary is a function;
\* var_order is the insertion order of var_to_llvm, which the prologue
\* iterates.  print_format_strings lists the interned formats in the order
\* of their globals.
LLVMGenerator ==
    [output |-> <<>>, temp_to_llvm |-> <<>>, var_to_llvm |-> <<>>,
     var_order |-> <<>>, var_type_map |-> <<>>, llvm_temp_counter |-> 1,
     current_function |-> 0, pending_params |-> <<>>,
     pending_param_types |-> <<>>, alloca_instructions |-> <<>>,
     i1_temporaries |-> {}, string_literals |-> <<>>, string_counter |-> 0,
     print_format_strings |-> <<>>, temp_types |-> <<>>]

\* the emitter's place in its loops: function, block, instruction
NoCursor == [fi |-> 0, bi |-> 0, ii |-> 0]

EmitterOff ==
    /\ empc = "off"
    /\ mir_functions = <<>>
    /\ emitter = LLVMGenerator
    /\ cursor = NoCursor

\* the phases modelled on their own have not run
LexerOff ==
    /\ lexpc = "off"
    /\ lexdata = <<>>
    /\ lexpos = 0
    /\ lexed = <<>>

\* what generalize_type returned for the pairs of three types
NotGeneralized == [ab |-> "", ba |-> "", aa |-> "", ab_c |-> "", a_bc |-> ""]

GeneralizeOff ==
    /\ genpc = "off"
    /\ type_a = ""
    /\ type_b = ""
    /\ type_c = ""
    /\ generalized = NotGeneralized

\* no pass is run on its own
DeadStoresOff ==
    /\ dsepc = "off"
    /\ mir_func = NoFunction
    /\ stores_eliminated = NoFunction

AstOptimizerOff ==
    /\ dagpc = "off"
    /\ dag_in = NoNode
    /\ dag_out = NoNode
    /\ mir_before = NoFunction
    /\ mir_after = NoFunction

LateOff == DeadStoresOff /\ AstOptimizerOff

RestOff == LexerOff /\ GeneralizeOff /\ LateOff

PhasesOff ==
    TypePassOff /\ ParserOff /\ ReportsOff /\ EmitterOff /\ RestOff

SymbolPassOff ==
    /\ sympc = "off"
    /\ unit = <<>>
    /\ frames = <<>>
    /\ scope_stack = <<>>
    /\ offset = 0
    /\ errors = <<>>
    /\ collect_mode = FALSE
    /\ hist = HistStart
    /\ annotations = <<>>
    /\ PhasesOff

\* BuildSymbolTableVisitor(): the global scope with the builtin print; then
\* program.accept(table) visits the units in order
StartPass ==
    /\ sympc = "ready"
    /\ scope_stack' = put(<<EmptyScope>>, "print",
                          FunctionAttributes("void")).stack
    /\ offset' = 0
    /\ frames' = Visits(unit)
    /\ sympc' = "running"
    /\ UNCHANGED <<unit, errors, collect_mode, hist, annotations, mirVars, phaseVars>>

Visiting(kinds) ==
    /\ sympc = "running"
    /\ frames # <<>>
    /\ Head(frames).t = "visit"
    /\ Head(frames).node.k \in kinds

\* Error.name_error: the error is recorded; in immediate mode the
\* exception ends the pass where it stands
Raise(e) ==
    /\ errors' = add_error(errors, e)
    /\ IF collect_mode THEN sympc' = sympc ELSE sympc' = "aborted"

VisitFunctionDefinition ==
    /\ Visiting({"fdef"})
    /\ LET node == Head(frames).node
           r == put(scope_stack, node.name, FunctionAttributes(node.rt))
       IN  /\ IF r.error # "" THEN Raise(NameError(r.error, node.name))
              ELSE UNCHANGED <<errors, sympc>>
           /\ IF r.error # "" /\ ~collect_mode
              THEN UNCHANGED <<scope_stack, offset, frames, hist>>
              ELSE /\ offset' = 0
                   /\ scope_stack' = open_scope(r.stack)
                   /\ frames' = Visits(node.params)
                                \o Visits(Children(node.body))
                                \o <<CloseFrame(hist.opened + 1, Len(scope_stack))>>
                                \o Tail(frames)
                   /\ hist' = HistOpen(hist)
    /\ UNCHANGED <<unit, collect_mode, annotations, mirVars, phaseVars>>

\* the rest of the visit of a function definition: close_scope and return
CloseFunctionScope ==
    /\ sympc = "running"
    /\ frames # <<>>
    /\ Head(frames).t = "close"
    /\ scope_stack' = close_scope(scope_stack)
    /\ hist' = HistLeave(hist, "fdef", Head(frames).id, Head(frames).depth,
                         Len(scope_stack) - 1, TRUE)
    /\ frames' = Tail(frames)
    /\ UNCHANGED <<sympc, unit, offset, errors, collect_mode, annotations, mirVars, phaseVars>>

VisitCompoundStatement ==
    /\ Visiting({"compound"})
    /\ scope_stack' = open_scope(scope_stack)
    /\ frames' = Visits(Children(Head(frames).node))
                 \o <<LeaveFrame(hist.opened + 1, Len(scope_stack))>>
                 \o Tail(frames)
    /\ hist' = HistOpen(hist)
    /\ UNCHANGED <<sympc, unit, offset, errors, collect_mode, annotations, mirVars, phaseVars>>

\* the visit of a compound statement returns once its children are done
LeaveCompoundStatement ==
    /\ sympc = "running"
    /\ frames # <<>>
    /\ Head(frames).t = "leave"
    /\ hist' = HistLeave(hist, "compound", Head(frames).id,
                         Head(frames).depth, Len(scope_stack), FALSE)
    /\ frames' = Tail(frames)
    /\ UNCHANGED <<sympc, unit, scope_stack, offset, errors, collect_mode,
                   annotations, mirVars, phaseVars>>

VisitDeclaration ==
    /\ Visiting({"decl"})
    /\ LET node == Head(frames).node
           r == put(scope_stack, node.name, VariableAttributes(node.ty, offset))
       IN  /\ offset' = offset + 1
           /\ scope_stack' = r.stack
           /\ IF r.error # "" THEN Raise(NameError(r.error, node.name))
              ELSE UNCHANGED <<errors, sympc>>
           /\ IF r.error # "" /\ ~collect_mode THEN UNCHANGED frames
              ELSE frames' = Visits(Children(node)) \o Tail(frames)
    /\ UNCHANGED <<unit, collect_mode, hist, annotations, mirVars, phaseVars>>

\* the attributes and type the pass leaves on a node (on the target of an
\* Assignment, on the identifier of a FunctionCall); a node whose name is
\* not found keeps the None it was built with
Annotation(node, attributes) ==
    [k |-> node.k, name |-> node.name, attributes |-> attributes]

\* the lookup of the visited node's name, common to the three visits that
\* resolve a name
Resolve(message) ==
    LET node == Head(frames).node
        found == lookup(scope_stack, node.name) # NoAttributes
    IN  /\ IF found THEN UNCHANGED <<errors, sympc>>
           ELSE Raise(NameError(message, node.name))
        /\ IF ~found /\ ~collect_mode THEN UNCHANGED frames
           ELSE frames' = Visits(Children(node)) \o Tail(frames)
        /\ hist' = HistLookup(hist, scope_stack, node.name)
        /\ annotations' = Append(annotations,
                                 Annotation(node, lookup(scope_stack, node.name)))

VisitAssignment ==
    /\ Visiting({"assign"})
    /\ Resolve("undeclared symbol")
    /\ UNCHANGED <<unit, scope_stack, offset, collect_mode, mirVars, phaseVars>>

VisitReference ==
    /\ Visiting({"ref"})
    /\ Resolve("undeclared symbol")
    /\ UNCHANGED <<unit, scope_stack, offset, collect_mode, mirVars, phaseVars>>

VisitFunctionCall ==
    /\ Visiting({"call"})
    /\ Resolve("undeclared function")
    /\ UNCHANGED <<unit, scope_stack, offset, collect_mode, mirVars, phaseVars>>

\* every other node: accept_children
VisitOther ==
    /\ Visiting({"if", "while", "for", "return", "bin", "un", "const"})
    /\ frames' = Visits(Children(Head(frames).node)) \o Tail(frames)
    /\ UNCHANGED <<sympc, unit, scope_stack, offset, errors, collect_mode,
                   hist, annotations, mirVars, phaseVars>>

\* program.accept(table) returns
FinishPass ==
    /\ sympc = "running"
    /\ frames = <<>>
    /\ sympc' = "done"
    /\ UNCHANGED <<unit, frames, scope_stack, offset, errors, collect_mode,
                   hist, annotations, mirVars, phaseVars>>

NextSym ==
    \/ StartPass
    \/ VisitFunctionDefinition
    \/ CloseFunctionScope
    \/ VisitCompoundStatement
    \/ LeaveCompoundStatement
    \/ VisitDeclaration
    \/ VisitAssignment
    \/ VisitReference
    \/ VisitFunctionCall
    \/ VisitOther
    \/ FinishPass

(***************************************************************************)
(* The translation units the symbol pass is run on: a function whose body  *)
(* has at most MaxSymNodes statement nodes, alone or followed by one more  *)
(* external declaration.                                                   *)
(***************************************************************************)
MaxSymNodes == 2

DeclareX == Declaration("int", "x", <<>>)
ReferX == Reference("x")
CallF == FunctionCall("f", <<ReferX>>)

SymLeafStatements ==
    {AssignX, Return(<<ReferX>>), CallF, CompoundStatement(<<DeclareX>>, <<>>)}

RECURSIVE SymStatementsOfSize(_)
RECURSIVE SymListsOfSize(_)

SymStatementsOfSize(n) ==
    IF n = 1 THEN SymLeafStatements
    ELSE {If(ReferX, s, <<>>) : s \in SymStatementsOfSize(n - 1)}
         \cup {While(BinaryOperator("<", ReferX, One), s) :
                  s \in SymStatementsOfSize(n - 1)}
         \cup {CompoundStatement(d, l) : d \in {<<>>, <<DeclareX>>},
                                         l \in SymListsOfSize(n - 1)}

SymListsOfSize(m) ==
    IF m = 0 THEN {<<>>}
    ELSE UNION {{<<s>> \o l : s \in SymStatementsOfSize(j),
                              l \in SymListsOfSize(m - j)} : j \in 1..m}

SymFunctions ==
    {FunctionDefinition("f", "int", ps, CompoundStatement(d, l)) :
        ps \in {<<>>, <<DeclareX>>},
        d \in {<<>>, <<DeclareX>>, <<Declaration("int", "y", <<ReferX>>)>>,
               <<Declaration("int", "f", <<>>)>>},
        l \in UNION {SymListsOfSize(m) : m \in 0..MaxSymNodes}}

\* what may follow the function in the unit
Followers ==
    {<<>>,
     <<DeclareX>>,
     <<FunctionDefinition("g", "int", <<>>,
                          CompoundStatement(<<>>, <<Return(<<ReferX>>)>>))>>,
     <<FunctionDefinition("f", "int", <<>>, CompoundStatement(<<>>, <<>>))>>,
     <<Declaration("int", "f", <<>>)>>}

Units == {<<f>> \o g : f \in SymFunctions, g \in Followers}

(***************************************************************************)
(* The type pass (sarac/analysis/semantic.py, types.py).  The visitor's    *)
(* state s holds its current_return_type, the error collector (errors,     *)
(* collect, raised: an exception is under way and nothing more runs), the  *)
(* number of annotated nodes met so far (next), the type of the node just  *)
(* visited (type) and what the pass found for every node it finished       *)
(* (log).  No type is "".                                                  *)
(***************************************************************************)
NoType == ""

is_numeric_type(ttype) == ttype \in {"int", "float", "char"}

\* generalize_type that looks for int before float
generalize_type_int_first(type1, type2) ==
    IF ~is_numeric_type(type1) \/ ~is_numeric_type(type2) THEN NoType
    ELSE IF type1 = "int" \/ type2 = "int" THEN "int"
    ELSE IF type1 = "float" \/ type2 = "float" THEN "float"
    ELSE "char"

generalize_type(type1, type2) ==
    IF ~is_numeric_type(type1) \/ ~is_numeric_type(type2) THEN NoType
    ELSE IF type1 = "float" \/ type2 = "float" THEN "float"
    ELSE IF type1 = "int" \/ type2 = "int" THEN "int"
    ELSE "char"

SemanticsVisitor(notes, errs, collect) ==
    [current_return_type |-> NoType, notes |-> notes, errors |-> errs,
     collect |-> collect, raised |-> FALSE, next |-> 0, type |-> NoType,
     log |-> <<>>]

TypeError(message) == [code |-> "E0004", message |-> message, name |-> ""]

\* Error.type_error: the error is recorded; in immediate mode it raises
type_error(s, message) ==
    IF s.raised THEN s
    ELSE [s EXCEPT !.errors = add_error(@, TypeError(message)),
                   !.raised = ~s.collect]

\* the visit of a node ends: the node has type t
Typed(s, kind, t, other) ==
    IF s.raised THEN s
    ELSE [s EXCEPT !.type = t,
                   !.log = Append(@, [k |-> kind, type |-> t, other |-> other])]

\* the attributes and type the symbol pass left on the next annotated node
Attached(s) == s.notes[s.next + 1].attributes

Advance(s) == [s EXCEPT !.next = @ + 1]

RECURSIVE SemanticsVisit(_, _)
RECURSIVE SemanticsChildren(_, _)

\* node.accept_children(self) over a list of children
SemanticsChildren(s, nodes) ==
    IF nodes = <<>> \/ s.raised THEN s
    ELSE SemanticsChildren(SemanticsVisit(s, Head(nodes)), Tail(nodes))

LeaveFunction(s) ==
    IF s.raised THEN s ELSE [s EXCEPT !.current_return_type = NoType]

SemanticsFunctionDefinition(s, node) ==
    LeaveFunction(SemanticsChildren([s EXCEPT !.current_return_type = node.rt],
                                    node.params \o <<node.body>>))

ReturnCheck(s, expected) ==
    IF s.raised THEN s
    ELSE IF s.type = NoType
    THEN Typed(type_error(s, "return expression has no type"),
               "return", s.type, expected)
    ELSE IF s.type # expected
    THEN Typed(type_error(s, "return type mismatch"),
               "return", s.type, expected)
    ELSE Typed(s, "return", s.type, expected)

SemanticsReturn(s, node) ==
    IF s.current_return_type = NoType
    THEN SemanticsChildren(type_error(s, "return statement outside of function"),
                           node.oe)
    ELSE IF node.oe = <<>>
    THEN type_error(s, "return statement must return a value")
    ELSE ReturnCheck(SemanticsVisit(s, node.oe[1]), s.current_return_type)

ReferenceType(s, a) ==
    IF a.type = NoType
    THEN Typed(type_error(s, "has no type"), "ref", a.type, "")
    ELSE Typed(s, "ref", a.type, "")

SemanticsReference(s, a) ==
    IF a # NoAttributes /\ a.kind # "variable"
    THEN ReferenceType(type_error(s, "does not name a data object"), a)
    ELSE ReferenceType(s, a)

UnaryType(s) == Typed(s, "un", s.type, "")

BinaryCheck(left, s) ==
    IF s.raised THEN s
    ELSE IF left = NoType
    THEN Typed(type_error(s, "left operand has no type"), "bin", NoType, "")
    ELSE IF s.type = NoType
    THEN Typed(type_error(s, "right operand has no type"), "bin", NoType, "")
    ELSE IF generalize_type(left, s.type) = NoType
    THEN Typed(type_error(s, "invalid types for binary operation"),
               "bin", NoType, "")
    ELSE Typed(s, "bin", generalize_type(left, s.type), "")

BinaryRight(s, node) ==
    IF s.raised THEN s ELSE BinaryCheck(s.type, SemanticsVisit(s, node.r))

CallCheck(s, a) ==
    IF a = NoAttributes
    THEN Typed(type_error(s, "function is not defined"), "call", NoType, "")
    ELSE IF a.kind = "function"
    THEN Typed(s, "call", a.type, "")
    ELSE Typed(type_error(s, "is not a function"), "call", NoType, "")

\* an Assignment visit that does not compare the two types
AssignmentUnchecked(s, a) ==
    IF s.raised THEN s ELSE Typed(s, "assign", a.type, s.type)

AssignmentCheck(s, a) ==
    IF s.raised THEN s
    ELSE IF a.type # s.type
    THEN Typed(type_error(s, "trying to assign different types"),
               "assign", a.type, s.type)
    ELSE Typed(s, "assign", a.type, s.type)

\* SemanticsVisitor.visit
SemanticsVisit(s, node) ==
    IF s.raised THEN s
    ELSE CASE node.k = "fdef" -> SemanticsFunctionDefinition(s, node)
           [] node.k = "return" -> SemanticsReturn(s, node)
           [] node.k = "const" -> Typed(s, "const", node.val.ty, "")
           [] node.k = "ref" -> SemanticsReference(Advance(s), Attached(s))
           [] node.k = "un" -> UnaryType(SemanticsVisit(s, node.e))
           [] node.k = "bin" -> BinaryRight(SemanticsVisit(s, node.l), node)
           [] node.k = "call" ->
                 CallCheck(SemanticsChildren(Advance(s), node.args), Attached(s))
           [] node.k = "assign" ->
                 AssignmentCheck(SemanticsVisit(Advance(s), node.e), Attached(s))
           [] OTHER -> SemanticsChildren(s, Children(node))

\* compile_phase_analysis, after the symbol pass:
\* program.accept_children(SemanticsVisitor())
TypeCheck ==
    /\ typc = "ready"
    /\ sympc = "done"
    /\ typed' = SemanticsChildren(SemanticsVisitor(annotations, errors,
                                                   collect_mode), unit)
    /\ errors' = typed'.errors
    /\ typc' = IF typed'.raised THEN "aborted" ELSE "done"
    /\ UNCHANGED <<sympc, unit, frames, scope_stack, offset, collect_mode,
                   hist, annotations, mirVars, parseVars, reportVars,
                   emitVars, restVars>>

NextType == NextSym \/ TypeCheck

(***************************************************************************)
(* The parser's error handling (sarac/frontend/parser.py p_error,          *)
(* lexer.py t_error) over a source given as its tokens.  A token is "t" (a *)
(* token the grammar accepts where it stands), "x" (a token it does not    *)
(* accept there), ";" , "{" or "@" (a character no lexer rule matches).    *)
(* A source is complete when the grammar accepts the end of input after    *)
(* its last token.  tokens is the input not yet read.                      *)
(***************************************************************************)
SyntaxErrorRecord(message) == [code |-> "E0001", message |-> message, name |-> ""]
LexicalErrorRecord(message) == [code |-> "E0002", message |-> message, name |-> ""]

\* what the parser does not touch
outsideParser ==
    <<mirVars, sympc, unit, frames, scope_stack, offset, hist, annotations,
      typeVars, reportVars, emitVars, restVars>>

\* Parser.parse is called on a fresh parser
StartParse ==
    /\ parpc = "ready"
    /\ parpc' = "parsing"
    /\ tokens' = source.tokens
    /\ UNCHANGED <<source, error_count, errors, collect_mode, outsideParser>>

\* the parser reads a token the grammar accepts
Shift ==
    /\ parpc = "parsing"
    /\ tokens # <<>>
    /\ Head(tokens) \in {"t", ";", "{"}
    /\ tokens' = Tail(tokens)
    /\ UNCHANGED <<parpc, source, error_count, errors, collect_mode, outsideParser>>

\* Lexer.t_error: lexical_error, then the character is skipped
t_error ==
    /\ parpc = "parsing"
    /\ tokens # <<>>
    /\ Head(tokens) = "@"
    /\ errors' = add_error(errors, LexicalErrorRecord("unknown char"))
    /\ IF collect_mode
       THEN parpc' = parpc /\ tokens' = Tail(tokens)
       ELSE parpc' = "aborted" /\ tokens' = tokens
    /\ UNCHANGED <<source, error_count, collect_mode, outsideParser>>

RECURSIVE SkipToSynchronizingToken(_, _)
\* the loop of p_error: self.parser.token() until None, SEMICOLON or LBRACE;
\* the lexer reports the unknown characters it meets on the way
SkipToSynchronizingToken(toks, errs) ==
    IF toks = <<>> \/ Head(toks) \in {";", "{"}
    THEN [tokens |-> toks, errors |-> errs]
    ELSE SkipToSynchronizingToken(
             Tail(toks),
             IF Head(toks) = "@"
             THEN add_error(errs, LexicalErrorRecord("unknown char"))
             ELSE errs)

\* Parser.p_error(p) for an unexpected token p
p_error ==
    /\ parpc = "parsing"
    /\ tokens # <<>>
    /\ Head(tokens) = "x"
    /\ error_count' = error_count + 1
    /\ IF collect_mode
       THEN /\ errors' = SkipToSynchronizingToken(
                             Tail(tokens),
                             add_error(errors,
                                       SyntaxErrorRecord("unexpected token"))).errors
            /\ tokens' = SkipToSynchronizingToken(Tail(tokens), errors).tokens
            /\ parpc' = parpc
       ELSE /\ errors' = add_error(errors, SyntaxErrorRecord("unexpected token"))
            /\ tokens' = tokens
            /\ parpc' = "aborted"
    /\ UNCHANGED <<source, collect_mode, outsideParser>>

\* Parser.p_error(None): the input ends where the grammar wants more
p_error_end_of_file ==
    /\ parpc = "parsing"
    /\ tokens = <<>>
    /\ ~source.complete
    /\ error_count' = error_count + 1
    /\ errors' = add_error(errors, SyntaxErrorRecord("unexpected end-of-file"))
    /\ parpc' = IF collect_mode THEN "parsed" ELSE "aborted"
    /\ UNCHANGED <<source, tokens, collect_mode, outsideParser>>

\* Parser.parse returns
EndParse ==
    /\ parpc = "parsing"
    /\ tokens = <<>>
    /\ source.complete
    /\ parpc' = "parsed"
    /\ UNCHANGED <<source, tokens, error_count, errors, collect_mode, outsideParser>>

\* compile_phase_parser after parser.parse: sys.exit(1) when error_count > 0
compile_phase_parser ==
    /\ parpc = "parsed"
    /\ parpc' = IF error_count > 0 THEN "exited" ELSE "accepted"
    /\ UNCHANGED <<source, tokens, error_count, errors, collect_mode, outsideParser>>

NextParse ==
    \/ StartParse
    \/ Shift
    \/ t_error
    \/ p_error
    \/ p_error_end_of_file
    \/ EndParse
    \/ compile_phase_parser

(***************************************************************************)
(* The error decorator (sarac/utils/error.py) on its own: the errors one   *)
(* compilation reports, phase after phase.  reported is the class counter  *)
(* Error.errors; reppc says whether SaraErrorException has been raised.    *)
(***************************************************************************)
MaxReports == 52

\* the codes of the four methods of Error: syntax, lexical, name, type
ErrorCodes == <<"E0001", "E0002", "E0003", "E0004">>

CodeIndex(code) == CHOOSE i \in 1..Len(ErrorCodes) : ErrorCodes[i] = code

ErrorRecord(code) == [code |-> code, message |-> "", name |-> ""]

\* the phases run in order: an error of an earlier phase is not reported
\* after one of a later phase
InPhaseOrder(code) ==
    IF errors = <<>> THEN TRUE
    ELSE CodeIndex(errors[Len(errors)].code) <= CodeIndex(code)

\* error_wrapper: an Error.<kind>_error call with the code of its kind.  The
\* wrapper and the wrapped function each count the error.
error_wrapper(code) ==
    /\ reppc = "running"
    /\ reported < 2 * MaxReports
    /\ InPhaseOrder(code)
    /\ reported' = reported + 2
    /\ errors' = add_error(errors, ErrorRecord(code))
    /\ reppc' = IF collect_mode THEN "running" ELSE "raised"
    /\ UNCHANGED <<collect_mode, mirVars, sympc, unit, frames, scope_stack,
                   offset, hist, annotations, typeVars, parseVars,
                   emitVars, restVars>>

NextReport == \E i \in 1..Len(ErrorCodes) : error_wrapper(ErrorCodes[i])

(***************************************************************************)
(* The LLVM-IR emitter (sarac/ir/llvm.py).  The emitter works on the MIR   *)
(* functions of a module; beside what MIRFunction holds, a function has    *)
(* parameter_types and var_types (the declared type of each local).  An    *)
(* LLVM operand is a record: the numeric name %n when n > 0, other text    *)
(* (a literal, or the name of a temporary that was never given a value)    *)
(* when n = 0.  An emitted line is a record: kind says what it is, op is   *)
(* its opcode, def is the numeric name it defines (0: none), operands are  *)
(* the operands it reads, note is the function, callee, label or type it   *)
(* names, and format and global are the format string and the number of    *)
(* the global of a line that belongs to print.                             *)
(***************************************************************************)
Numbered(n) == [n |-> n, text |-> ""]
Text(t) == [n |-> 0, text |-> t]

\* value.startswith('%')
IsName(v) == v.n > 0

\* int(value) or float(value) succeeds
Parses(v) == v.n = 0 /\ v.text = "literal"

Line(kind, op, def, operands, note) ==
    [kind |-> kind, op |-> op, def |-> def, operands |-> operands,
     note |-> note, format |-> <<>>, global |-> 0]

FormatLine(line, format, global) ==
    [line EXCEPT !.format = format, !.global = global]

BlankLine == Line("blank", "", 0, <<>>, "")

\* dict.get(key, default)
Get(map, key, default) == IF key \in DOMAIN map THEN map[key] ELSE default

\* list[-n:] and list[:-n] for n > 0
LastN(s, n) == SubSeq(s, IF Len(s) > n THEN Len(s) - n + 1 ELSE 1, Len(s))
DropLastN(s, n) == SubSeq(s, 1, IF Len(s) > n THEN Len(s) - n ELSE 0)

type_to_llvm(sarac_type) ==
    CASE sarac_type = "" -> "void"
      [] sarac_type = "int" -> "i32"
      [] sarac_type = "char" -> "i8"
      [] sarac_type = "string" -> "i8*"
      [] sarac_type = "float" -> "double"
      [] sarac_type = "void" -> "void"
      [] OTHER -> "i32"

\* new_llvm_temp without the increment
new_llvm_temp_stuck(e) == e

\* the generator after new_llvm_temp; the name returned is the counter
\* before the call
new_llvm_temp(e) == [e EXCEPT !.llvm_temp_counter = @ + 1]

Emit(e, line) == [e EXCEPT !.output = Append(@, line)]

\* t = new_llvm_temp(); emit("t = op operands")
Define(e, op, operands, note) ==
    Emit(new_llvm_temp(e),
         Line("instr", op, e.llvm_temp_counter, operands, note))

get_llvm_value(e, operand) ==
    IF operand \in DOMAIN e.temp_to_llvm THEN e.temp_to_llvm[operand]
    ELSE Text(operand)

\* if result: self.temp_to_llvm[result] = value
MapResult(e, res, v) ==
    IF res = "" THEN e ELSE [e EXCEPT !.temp_to_llvm = Bind(@, res, v)]

\* if result: self.temp_types[result] = ty
TypeResult(e, res, ty) ==
    IF res = "" THEN e ELSE [e EXCEPT !.temp_types = Bind(@, res, ty)]

\* a new temporary defined by op and recorded as the value of the result
DefineResult(e, instr, op, operands) ==
    MapResult(Define(e, op, operands, ""), instr.res,
              Numbered(e.llvm_temp_counter))

\* CONST: operand_types is set on the constants of the source, and a
\* constant the compiler made has the type of its Python value
generate_const(e, instr) ==
    IF instr.res = "" THEN e
    ELSE IF instr.val.form = "lexeme" /\ instr.val.ty = "string"
    THEN TypeResult(DefineResult(e, instr, "getelementptr", <<>>),
                    instr.res, "string")
    ELSE TypeResult(
             DefineResult(e, instr,
                          IF type_to_llvm(instr.val.ty) = "double"
                          THEN "fadd" ELSE "add",
                          <<Text("literal")>>),
             instr.res, instr.val.ty)

\* "should have been collected in first pass, but handle gracefully"
EnsureVariable(e, var) ==
    IF var \in DOMAIN e.var_to_llvm THEN e
    ELSE [new_llvm_temp(e) EXCEPT
             !.var_to_llvm = Bind(@, var, Numbered(e.llvm_temp_counter)),
             !.var_order = Append(@, var)]

LoadVariable(e1, f, instr, llvm_type) ==
    TypeResult(
        DefineResult(e1, instr, "load " \o llvm_type,
                     <<e1.var_to_llvm[instr.args[1]]>>),
        instr.res, Get(f.var_types, instr.args[1], "int"))

generate_load(e, f, instr) ==
    LoadVariable(EnsureVariable(e, instr.args[1]), f, instr,
                 Get(e.var_type_map, instr.args[1], "i32"))

\* the conversion a store needs: trunc, sitofp or none
StoreConversion(llvm_type, v, value_llvm_type) ==
    IF llvm_type = "i8" /\ IsName(v) /\ value_llvm_type = "i32" THEN "trunc"
    ELSE IF llvm_type = "double" /\ value_llvm_type = "i32" /\ IsName(v)
    THEN "sitofp"
    ELSE ""

StoreVariable(e1, var, v, conversion) ==
    IF conversion = ""
    THEN Emit(e1, Line("instr", "store", 0, <<v, e1.var_to_llvm[var]>>, ""))
    ELSE Emit(Define(e1, conversion, <<v>>, ""),
              Line("instr", "store", 0,
                   <<Numbered(e1.llvm_temp_counter), e1.var_to_llvm[var]>>,
                   ""))

generate_store(e, instr) ==
    StoreVariable(
        EnsureVariable(e, instr.args[1]), instr.args[1],
        get_llvm_value(e, instr.args[2]),
        StoreConversion(Get(e.var_type_map, instr.args[1], "i32"),
                        get_llvm_value(e, instr.args[2]),
                        type_to_llvm(Get(e.temp_types, instr.args[2], "int"))))

\* the locals of an arithmetic instruction
Operands(e, instr) ==
    [e |-> e,
     a |-> get_llvm_value(e, instr.args[1]),
     b |-> get_llvm_value(e, instr.args[2]),
     a_type |-> Get(e.temp_types, instr.args[1], "int"),
     b_type |-> Get(e.temp_types, instr.args[2], "int")]

\* ADD: a string pointer becomes an integer
PointerA(s) ==
    IF s.a_type = "string" /\ IsName(s.a)
    THEN [s EXCEPT !.e = Define(s.e, "ptrtoint", <<s.a>>, ""),
                   !.a = Numbered(s.e.llvm_temp_counter),
                   !.a_type = "int"]
    ELSE s

PointerB(s) ==
    IF s.b_type = "string" /\ IsName(s.b)
    THEN [s EXCEPT !.e = Define(s.e, "ptrtoint", <<s.b>>, ""),
                   !.b = Numbered(s.e.llvm_temp_counter),
                   !.b_type = "int"]
    ELSE s

\* an operand that is not a float is converted: a literal in place, anything
\* else by sitofp
DoubleA(s) ==
    IF s.a_type # "float" /\ ~Parses(s.a)
    THEN [s EXCEPT !.e = Define(s.e, "sitofp", <<s.a>>, ""),
                   !.a = Numbered(s.e.llvm_temp_counter)]
    ELSE s

DoubleB(s) ==
    IF s.b_type # "float" /\ ~Parses(s.b)
    THEN [s EXCEPT !.e = Define(s.e, "sitofp", <<s.b>>, ""),
                   !.b = Numbered(s.e.llvm_temp_counter)]
    ELSE s

ArithmeticResult(s, instr, op, ty) ==
    TypeResult(DefineResult(s.e, instr, op, <<s.a, s.b>>), instr.res, ty)

\* ADD, SUB, MUL, DIV after the pointer conversions
Arithmetic(s, instr, op) ==
    IF s.a_type = "float" \/ s.b_type = "float"
    THEN ArithmeticResult(DoubleB(DoubleA(s)), instr, "f" \o op, "float")
    ELSE ArithmeticResult(s, instr, IF op = "div" THEN "sdiv" ELSE op, "int")

\* MOD, SHL, SHR
IntegerOperation(e, instr, op) ==
    TypeResult(
        DefineResult(e, instr, op, <<get_llvm_value(e, instr.args[1]),
                                     get_llvm_value(e, instr.args[2])>>),
        instr.res, "int")

\* i1_temporaries.add(llvm_temp) under "if result"
MarkI1(e, res, v) ==
    IF res = "" THEN e ELSE [e EXCEPT !.i1_temporaries = @ \cup {v}]

\* EQ, NE, LT, LE, GT, GE
Predicate(op) ==
    CASE op = "lt" -> "slt" [] op = "le" -> "sle" [] op = "gt" -> "sgt"
      [] op = "ge" -> "sge" [] OTHER -> op

Comparison(e, instr) ==
    MarkI1(DefineResult(e, instr, "icmp " \o Predicate(instr.op),
                        <<get_llvm_value(e, instr.args[1]),
                          get_llvm_value(e, instr.args[2])>>),
           instr.res, Numbered(e.llvm_temp_counter))

\* AND, OR
Logical(e, instr) ==
    DefineResult(e, instr, instr.op, <<get_llvm_value(e, instr.args[1]),
                                       get_llvm_value(e, instr.args[2])>>)

\* NOT, NEG
Unary(e, instr) ==
    DefineResult(e, instr, IF instr.op = "not" THEN "xor" ELSE "sub",
                 <<get_llvm_value(e, instr.args[1])>>)

\* label_map: the first block has no label, the others are bb0, bb1, ...
LabelOf(f, label) ==
    IF HasBlock(f, label) /\ BlockIndex(f, label) > 1
    THEN "bb" \o ToString(BlockIndex(f, label) - 2)
    ELSE "entry"

BranchTo(e, f, instr, cond) ==
    Emit(e, Line("instr", "br i1", 0, <<cond>>,
                 LabelOf(f, instr.args[2]) \o "," \o LabelOf(f, instr.args[3])))

\* BRANCH: a condition that is a literal or an i32 name is compared with 0
generate_branch(e, f, instr, cond_value) ==
    IF Parses(cond_value)
       \/ (IsName(cond_value) /\ cond_value \notin e.i1_temporaries)
    THEN BranchTo([Define(e, "icmp ne", <<cond_value>>, "") EXCEPT
                      !.i1_temporaries =
                          @ \cup {Numbered(e.llvm_temp_counter)}],
                  f, instr, Numbered(e.llvm_temp_counter))
    ELSE BranchTo(e, f, instr, cond_value)

Ret(return_type, value) ==
    Line("instr", "ret " \o return_type, 0, <<value>>, "")

\* RETVAL into a char function: a constant is materialized and truncated
TruncatedConstant(e1) ==
    Emit(Define(e1, "trunc", <<Numbered(e1.llvm_temp_counter - 1)>>, ""),
         Ret("i8", Numbered(e1.llvm_temp_counter)))

\* RETVAL: a value returned from a char function is truncated to i8
generate_retval(e, instr, value, return_type) ==
    IF return_type = "i8"
    THEN IF IsName(value)
         THEN IF type_to_llvm(Get(e.temp_types, instr.args[1], "int")) = "i32"
              THEN Emit(Define(e, "trunc", <<value>>, ""),
                        Ret(return_type, Numbered(e.llvm_temp_counter)))
              ELSE Emit(e, Ret(return_type, value))
         ELSE TruncatedConstant(Define(e, "add", <<value>>, ""))
    ELSE Emit(e, Ret(return_type, value))

\* _get_operand_type of the operand of a param: the type recorded for the
\* temporary, and int for a temporary without one (its name is not a
\* string literal, a character or a number)
get_operand_type(e, operand) == Get(e.temp_types, operand, "int")

\* PARAM
generate_param(e, instr) ==
    [e EXCEPT
        !.pending_params = Append(@, get_llvm_value(e, instr.args[1])),
        !.pending_param_types =
            Append(@, get_operand_type(e, instr.args[1]))]

\* func_name in self.mir_functions, and self.mir_functions[func_name]: the
\* dictionary keeps the last function of that name
IsDefined(fs, name) == \E i \in 1..Len(fs) : fs[i].name = name

Callee(fs, name) ==
    fs[CHOOSE i \in 1..Len(fs) :
          /\ fs[i].name = name
          /\ \A j \in (i + 1)..Len(fs) : fs[j].name # name]

expected_param_count(fs, name) ==
    IF IsDefined(fs, name) THEN Len(Callee(fs, name).parameters) ELSE 0

\* the queues after the call took its parameters
ConsumeParameters(e, n) ==
    IF n > 0
    THEN [e EXCEPT
             !.pending_params = DropLastN(@, n),
             !.pending_param_types =
                 IF Len(@) >= n THEN DropLastN(@, n) ELSE <<>>]
    ELSE e

\* zip(param_type_strs, params): the parameters that get a type
Zipped(fs, name, params) ==
    IF IsDefined(fs, name) /\ Len(Callee(fs, name).parameter_types) > 0
    THEN SubSeq(params, 1,
                IF Len(params) < Len(Callee(fs, name).parameter_types)
                THEN Len(params)
                ELSE Len(Callee(fs, name).parameter_types))
    ELSE params

\* the type recorded for the result of a call
CallType(fs, name) ==
    IF IsDefined(fs, name)
       /\ Callee(fs, name).return_type \in {"char", "string", "float"}
    THEN Callee(fs, name).return_type
    ELSE "int"

\* CALL of a function other than print
generate_call(e, fs, instr, n) ==
    TypeResult(
        MapResult(
            Emit(new_llvm_temp(ConsumeParameters(e, n)),
                 Line("instr", "call", e.llvm_temp_counter,
                      Zipped(fs, instr.args[1],
                             IF n > 0 THEN LastN(e.pending_params, n)
                             ELSE <<>>),
                      instr.args[1])),
            instr.res, Numbered(e.llvm_temp_counter)),
        instr.res, CallType(fs, instr.args[1]))

get_format_specifier(arg_type) ==
    CASE arg_type = "string" -> "%s"
      [] arg_type = "char" -> "%c"
      [] arg_type = "float" -> "%f"
      [] OTHER -> "%d"

\* the first line that defines the current function
IsDefinition(e, f, i) ==
    e.output[i].kind = "define" /\ e.output[i].note = f.name

InsertAt(s, i, x) == SubSeq(s, 1, i - 1) \o <<x>> \o SubSeq(s, i, Len(s))

FormatGlobal(format, global) ==
    FormatLine(Line("global", "format", 0, <<>>, ""), format, global)

\* the global of a format that is interned anew goes before the definition
\* of the current function
EmitFormatGlobal(e, f, line) ==
    IF \E i \in 1..Len(e.output) : IsDefinition(e, f, i)
    THEN [e EXCEPT !.output =
             InsertAt(@, CHOOSE i \in 1..Len(e.output) :
                             /\ IsDefinition(e, f, i)
                             /\ \A j \in 1..(i - 1) : ~IsDefinition(e, f, j),
                      line)]
    ELSE Emit(e, line)

\* the interning without the test "format_key not in print_format_strings"
InternAlways(e, f, format) ==
    EmitFormatGlobal(
        [e EXCEPT !.string_counter = @ + 1,
                  !.print_format_strings =
                      Bind(@, format, e.string_counter)],
        f, FormatGlobal(format, e.string_counter))

\* "get or create format string"
Intern(e, f, format) ==
    IF format \in DOMAIN e.print_format_strings THEN e
    ELSE EmitFormatGlobal(
             [e EXCEPT !.string_counter = @ + 1,
                       !.print_format_strings =
                           Bind(@, format, e.string_counter)],
             f, FormatGlobal(format, e.string_counter))

\* format_ptr = getelementptr ... format_global
FormatPointer(e, format) ==
    Emit(new_llvm_temp(e),
         FormatLine(Line("instr", "getelementptr", e.llvm_temp_counter,
                         <<>>, ""),
                    format, e.print_format_strings[format]))

\* the opcode of the last line that defines the name v
RECURSIVE DefiningOp(_, _, _)
DefiningOp(output, v, i) ==
    IF i = 0 THEN ""
    ELSE IF output[i].def = v.n THEN output[i].op
    ELSE DefiningOp(output, v, i - 1)

is_double(e, v) ==
    DefiningOp(e.output, v, Len(e.output))
        \in {"fadd", "fsub", "fmul", "fdiv", "load double"}

\* the conversion of one argument of print: zext, sitofp or none
ArgumentConversion(e, v, arg_type) ==
    IF arg_type = "char" THEN (IF IsName(v) THEN "zext" ELSE "")
    ELSE IF arg_type = "float"
    THEN IF IsName(v) THEN (IF is_double(e, v) THEN "" ELSE "sitofp")
         ELSE IF Parses(v) THEN "" ELSE "sitofp"
    ELSE ""

\* printf_result = call printf(format_ptr, args)
CallPrintf(e, format, format_ptr, printf_args) ==
    Emit(new_llvm_temp(e),
         FormatLine(Line("instr", "printf", e.llvm_temp_counter,
                         <<format_ptr>> \o printf_args, "printf"),
                    format, e.print_format_strings[format]))

RECURSIVE PrintArguments(_, _, _, _, _, _, _)
\* the loop over the arguments of print, then the call
PrintArguments(e, params, param_types, i, format, format_ptr, printf_args) ==
    IF i > Len(params)
    THEN CallPrintf(e, format, format_ptr, printf_args)
    ELSE IF ArgumentConversion(
                e, params[i],
                IF i <= Len(param_types) THEN param_types[i] ELSE "int") = ""
    THEN PrintArguments(e, params, param_types, i + 1, format, format_ptr,
                        Append(printf_args, params[i]))
    ELSE PrintArguments(
             Define(e,
                    ArgumentConversion(
                        e, params[i],
                        IF i <= Len(param_types) THEN param_types[i]
                        ELSE "int"),
                    <<params[i]>>, ""),
             params, param_types, i + 1, format, format_ptr,
             Append(printf_args, Numbered(e.llvm_temp_counter)))

\* the format of a print call: one specifier per queued type, or per
\* parameter when no type is queued
FormatOf(params, param_types) ==
    IF Len(params) = 0 THEN <<>>
    ELSE IF Len(param_types) > 0
    THEN [i \in 1..Len(param_types) |-> get_format_specifier(param_types[i])]
    ELSE [i \in 1..Len(params) |-> "%d"]

\* the print call once its format is interned
PrintWith(e1, params, param_types, format) ==
    PrintArguments(FormatPointer(e1, format), params, param_types, 1, format,
                   Numbered(e1.llvm_temp_counter), <<>>)

\* _handle_print_call: print takes every queued parameter
handle_print_call(e, f) ==
    PrintWith(
        Intern([e EXCEPT !.pending_params = <<>>,
                         !.pending_param_types = <<>>],
               f, FormatOf(e.pending_params, e.pending_param_types)),
        e.pending_params, e.pending_param_types,
        FormatOf(e.pending_params, e.pending_param_types))

generate_instruction(e, fs, f, instr) ==
    CASE instr.op = "const" -> generate_const(e, instr)
      [] instr.op = "load" -> generate_load(e, f, instr)
      [] instr.op = "store" -> generate_store(e, instr)
      [] instr.op = "add" ->
            Arithmetic(PointerB(PointerA(Operands(e, instr))), instr, "add")
      [] instr.op \in {"sub", "mul", "div"} ->
            Arithmetic(Operands(e, instr), instr, instr.op)
      [] instr.op = "mod" -> IntegerOperation(e, instr, "srem")
      [] instr.op = "shl" -> IntegerOperation(e, instr, "shl")
      [] instr.op = "shr" -> IntegerOperation(e, instr, "ashr")
      [] instr.op \in {"eq", "ne", "lt", "le", "gt", "ge"} ->
            Comparison(e, instr)
      [] instr.op \in {"and", "or"} -> Logical(e, instr)
      [] instr.op \in {"not", "neg"} -> Unary(e, instr)
      [] instr.op = "branch" ->
            generate_branch(e, f, instr, get_llvm_value(e, instr.args[1]))
      [] instr.op = "jump" ->
            Emit(e, Line("instr", "br", 0, <<>>, LabelOf(f, instr.args[1])))
      [] instr.op = "return" -> Emit(e, Line("instr", "ret void", 0, <<>>, ""))
      [] instr.op = "retval" ->
            generate_retval(e, instr, get_llvm_value(e, instr.args[1]),
                            type_to_llvm(f.return_type))
      [] instr.op = "param" -> generate_param(e, instr)
      [] instr.op = "call" ->
            IF instr.args[1] = "print" THEN handle_print_call(e, f)
            ELSE generate_call(e, fs, instr,
                               expected_param_count(fs, instr.args[1]))
      [] OTHER -> e

\* the instructions of all blocks of f, in order
InstructionsOf(f) ==
    Flatten([i \in 1..Len(f.blocks) |-> f.blocks[i].instructions])

\* the first pass of generate: the string literals of the module, in order
\* of first occurrence.  A constant is one when its type is string or it
\* has more than one character, and it is not the text of a number.
StringLiterals(fs) ==
    Dedup(Flatten([i \in 1..Len(fs) |->
             LET ins == SelectSeq(InstructionsOf(fs[i]),
                            LAMBDA instr :
                                /\ instr.op = "const"
                                /\ instr.val.form = "lexeme"
                                /\ instr.val.ty = "string")
             IN  [j \in 1..Len(ins) |-> ins[j].val]]))

StringGlobal(global) ==
    FormatLine(Line("global", "string", 0, <<>>, ""), <<>>, global)

\* the globals of the string literals, and a blank line after them
EmitStringLiterals(e, strings) ==
    [e EXCEPT
        !.string_literals = [v \in {strings[i] : i \in 1..Len(strings)} |->
                                (CHOOSE i \in 1..Len(strings) :
                                     strings[i] = v) - 1],
        !.string_counter = Len(strings),
        !.output = [i \in 1..Len(strings) |-> StringGlobal(i - 1)]
                   \o (IF Len(strings) > 0 THEN <<BlankLine>> ELSE <<>>)]

print_called(fs) ==
    \E i \in 1..Len(fs) :
        \E j \in 1..Len(InstructionsOf(fs[i])) :
            /\ InstructionsOf(fs[i])[j].op = "call"
            /\ InstructionsOf(fs[i])[j].args[1] = "print"

\* "declare printf if print is called"
DeclarePrintf(e, fs) ==
    IF print_called(fs)
    THEN Emit(Emit(e, Line("declare", "", 0, <<>>, "printf")), BlankLine)
    ELSE e

\* generate, up to the loop over the functions
ModulePrologue(e, fs) ==
    DeclarePrintf(
        EmitStringLiterals([e EXCEPT !.print_format_strings = <<>>],
                           StringLiterals(fs)),
        fs)

\* type_to_llvm(var_type) if var_type else "i32"
VariableType(f, var) ==
    IF var \in DOMAIN f.var_types THEN type_to_llvm(f.var_types[var])
    ELSE "i32"

\* param_types[i] of generate_function and collect_variables
ParameterType(f, i) ==
    IF Len(f.parameter_types) > 0
    THEN IF i <= Len(f.parameter_types)
         THEN type_to_llvm(f.parameter_types[i]) ELSE "i32"
    ELSE "i32"

\* a variable gets its alloca; var_type_map is set for the variables found
\* in a load or a store
Allocate(e, var, llvm_type, mapped) ==
    [new_llvm_temp(e) EXCEPT
        !.var_to_llvm = Bind(@, var, Numbered(e.llvm_temp_counter)),
        !.var_order = Append(@, var),
        !.var_type_map = IF mapped THEN Bind(@, var, llvm_type) ELSE @,
        !.alloca_instructions =
            Append(@, Line("instr", "alloca", e.llvm_temp_counter, <<>>,
                           llvm_type))]

RECURSIVE CollectLoadsAndStores(_, _, _, _)
CollectLoadsAndStores(e, f, ins, i) ==
    IF i > Len(ins) THEN e
    ELSE IF ins[i].op \in {"load", "store"}
            /\ ins[i].args[1] \notin DOMAIN e.var_to_llvm
    THEN CollectLoadsAndStores(
             Allocate(e, ins[i].args[1], VariableType(f, ins[i].args[1]),
                      TRUE),
             f, ins, i + 1)
    ELSE CollectLoadsAndStores(e, f, ins, i + 1)

RECURSIVE CollectParameters(_, _, _)
CollectParameters(e, f, i) ==
    IF i > Len(f.parameters) THEN e
    ELSE IF f.parameters[i] \notin DOMAIN e.var_to_llvm
    THEN CollectParameters(
             Allocate(e, f.parameters[i], ParameterType(f, i), FALSE),
             f, i + 1)
    ELSE CollectParameters(e, f, i + 1)

collect_variables(e, f) ==
    CollectParameters(CollectLoadsAndStores(e, f, InstructionsOf(f), 1), f, 1)

EmitAllocas(e) == [e EXCEPT !.output = @ \o e.alloca_instructions]

RECURSIVE InitializeStrings(_, _, _)
\* "initialize string variables to null"
InitializeStrings(e, f, i) ==
    IF i > Len(e.var_order) THEN e
    ELSE IF e.var_order[i] \in DOMAIN f.var_types
            /\ type_to_llvm(f.var_types[e.var_order[i]]) = "i8*"
    THEN InitializeStrings(
             Emit(Define(e, "getelementptr", <<>>, "null"),
                  Line("instr", "store", 0,
                       <<Numbered(e.llvm_temp_counter),
                         e.var_to_llvm[e.var_order[i]]>>, "")),
             f, i + 1)
    ELSE InitializeStrings(e, f, i + 1)

RECURSIVE StoreParameters(_, _, _)
\* "store function parameters into allocas"
StoreParameters(e, f, i) ==
    IF i > Len(f.parameters) THEN e
    ELSE IF f.parameters[i] \in DOMAIN e.var_to_llvm
    THEN StoreParameters(
             Emit(e, Line("instr", "store", 0,
                          <<Text("%" \o f.parameters[i]),
                            e.var_to_llvm[f.parameters[i]]>>, "")),
             f, i + 1)
    ELSE StoreParameters(e, f, i + 1)

\* the fields generate_function resets
ResetForFunction(e, fi) ==
    [e EXCEPT !.current_function = fi, !.temp_to_llvm = <<>>,
              !.var_to_llvm = <<>>, !.var_order = <<>>,
              !.var_type_map = <<>>, !.llvm_temp_counter = 1,
              !.alloca_instructions = <<>>, !.i1_temporaries = {},
              !.temp_types = <<>>, !.pending_params = <<>>,
              !.pending_param_types = <<>>]

\* generate_function, up to the loop over the blocks
FunctionPrologue(e, f, fi) ==
    StoreParameters(
        InitializeStrings(
            EmitAllocas(
                collect_variables(
                    Emit(ResetForFunction(e, fi),
                         Line("define", "", 0, <<>>, f.name)),
                    f)),
            f, 1),
        f, 1)

\* generate_block, up to the loop over the instructions: the label of a
\* block that is not the first, and the reset of pending_params
BlockPrologue(e, f, bi) ==
    [(IF bi > 1
      THEN Emit(e, Line("label", "", 0, <<>>, LabelOf(f, f.blocks[bi].label)))
      ELSE e) EXCEPT !.pending_params = <<>>]

\* what the emitter does not touch
outsideEmitter == <<mir_functions, mirVars, symVars, typeVars, parseVars,
                    reportVars, restVars>>

\* where the loops of generate_function go after block bi
AfterBlock(f, bi) == IF bi < Len(f.blocks) THEN "block" ELSE "end"

generate ==
    /\ empc = "ready"
    /\ emitter' = ModulePrologue(emitter, mir_functions)
    /\ cursor' = [fi |-> 1, bi |-> 0, ii |-> 0]
    /\ empc' = IF Len(mir_functions) = 0 THEN "done" ELSE "function"
    /\ UNCHANGED outsideEmitter

generate_function ==
    /\ empc = "function"
    /\ emitter' = FunctionPrologue(emitter, mir_functions[cursor.fi],
                                   cursor.fi)
    /\ cursor' = [cursor EXCEPT !.bi = 1, !.ii = 0]
    /\ empc' = IF Len(mir_functions[cursor.fi].blocks) = 0 THEN "end"
               ELSE "block"
    /\ UNCHANGED outsideEmitter

generate_block ==
    /\ empc = "block"
    /\ emitter' = BlockPrologue(emitter, mir_functions[cursor.fi], cursor.bi)
    /\ IF Len(mir_functions[cursor.fi].blocks[cursor.bi].instructions) = 0
       THEN /\ empc' = AfterBlock(mir_functions[cursor.fi], cursor.bi)
            /\ cursor' = [cursor EXCEPT !.bi = @ + 1, !.ii = 0]
       ELSE /\ empc' = "instruction"
            /\ cursor' = [cursor EXCEPT !.ii = 1]
    /\ UNCHANGED outsideEmitter

\* the instruction the emitter is at
CurrentInstruction ==
    mir_functions[cursor.fi].blocks[cursor.bi].instructions[cursor.ii]

\* one turn of the loop of generate_block: the instruction is emitted, and
\* the loop stops after a return
EmitInstruction ==
    /\ empc = "instruction"
    /\ emitter' = generate_instruction(emitter, mir_functions,
                                       mir_functions[cursor.fi],
                                       CurrentInstruction)
    /\ IF CurrentInstruction.op \in {"return", "retval"}
          \/ cursor.ii =
                 Len(mir_functions[cursor.fi].blocks[cursor.bi].instructions)
       THEN /\ empc' = AfterBlock(mir_functions[cursor.fi], cursor.bi)
            /\ cursor' = [cursor EXCEPT !.bi = @ + 1, !.ii = 0]
       ELSE /\ empc' = "instruction"
            /\ cursor' = [cursor EXCEPT !.ii = @ + 1]
    /\ UNCHANGED outsideEmitter

\* the end of generate_function: the closing brace and a blank line
EndFunction ==
    /\ empc = "end"
    /\ emitter' = Emit(Emit(emitter, Line("end", "", 0, <<>>, "")), BlankLine)
    /\ cursor' = [fi |-> cursor.fi + 1, bi |-> 0, ii |-> 0]
    /\ empc' = IF cursor.fi < Len(mir_functions) THEN "function" ELSE "done"
    /\ UNCHANGED outsideEmitter

NextEmit ==
    generate \/ generate_function \/ generate_block \/ EmitInstruction
    \/ EndFunction

(***************************************************************************)
(* The lexer (sarac/frontend/lexer.py).  lexdata is the input, a sequence  *)
(* of characters, lexpos the number of characters read and lexed the       *)
(* tokens returned so far.  The rules are functions, so the scanner tries  *)
(* them in the order of their definition in the class, as the              *)
(* alternatives of one regular expression: the first rule that matches at  *)
(* lexpos gives the token, whatever a later rule would match.  A token is  *)
(* its type, its text and its column.                                      *)
(***************************************************************************)
Digits == {"0", "1", "2", "3", "4", "5", "6", "7", "8", "9"}
Letters == {"f", "i"}

\* Lexer.keywords, for the identifiers over Letters
keywords(text) == IF text = <<"i", "f">> THEN "IF" ELSE "IDENTIFIER"

\* t_ignore
t_ignore == {" ", "\t"}

\* a rule that matches a fixed text
Fixed(name, text) == [name |-> name, form |-> "fixed", text |-> text]
\* a rule whose regular expression is modelled by MatchLength
Pattern(name) == [name |-> name, form |-> "pattern", text |-> <<>>]

\* the rules in the order of their definition
LexRules ==
    <<Pattern("NUMBER"), Pattern("CHARACTER_LITERAL"),
      Pattern("STRING_LITERAL"), Pattern("IDENTIFIER"),
      Fixed("PLUS", <<"+">>), Fixed("MINUS", <<"-">>),
      Fixed("TIMES", <<"*">>), Fixed("DIV", <<"/">>),
      Fixed("NOT", <<"!">>),
      Fixed("LE", <<"<", "=">>), Fixed("GE", <<">", "=">>),
      Fixed("EQUAL", <<"=", "=">>), Fixed("NOT_EQUAL", <<"!", "=">>),
      Fixed("LT", <<"<">>), Fixed("GT", <<">">>), Fixed("ASSIGN", <<"=">>),
      Fixed("LPAREN", <<"(">>), Fixed("RPAREN", <<")">>),
      Fixed("LBRACKET", <<"[">>), Fixed("RBRACKET", <<"]">>),
      Fixed("LBRACE", <<"{">>), Fixed("RBRACE", <<"}">>),
      Fixed("COMMA", <<",">>), Fixed("SEMICOLON", <<";">>),
      Fixed("COLON", <<":">>), Pattern("NEWLINE")>>

\* the character after the first pos characters ("" at the end)
CharAt(data, pos) == IF pos < Len(data) THEN data[pos + 1] ELSE ""

RECURSIVE Run(_, _, _)
\* how many characters of the set follow the first pos characters
Run(data, pos, set) ==
    IF CharAt(data, pos) \in set THEN 1 + Run(data, pos + 1, set) ELSE 0

\* [0-9]+(\.[0-9]+)?
NumberLength(data, pos) ==
    IF Run(data, pos, Digits) = 0 THEN 0
    ELSE IF CharAt(data, pos + Run(data, pos, Digits)) = "."
            /\ Run(data, pos + Run(data, pos, Digits) + 1, Digits) > 0
    THEN Run(data, pos, Digits) + 1
         + Run(data, pos + Run(data, pos, Digits) + 1, Digits)
    ELSE Run(data, pos, Digits)

\* _*[a-zA-Z][_a-zA-Z0-9]*
IdentifierLength(data, pos) ==
    IF CharAt(data, pos + Run(data, pos, {"_"})) \in Letters
    THEN Run(data, pos, {"_"}) + 1
         + Run(data, pos + Run(data, pos, {"_"}) + 1,
               Letters \cup Digits \cup {"_"})
    ELSE 0

\* '([^'\\]|\\.)'
CharacterLength(data, pos) ==
    IF CharAt(data, pos) # "'" THEN 0
    ELSE IF CharAt(data, pos + 1) = "\\"
    THEN IF CharAt(data, pos + 2) \notin {"", "\n"}
            /\ CharAt(data, pos + 3) = "'"
         THEN 4 ELSE 0
    ELSE IF CharAt(data, pos + 1) \notin {"", "'"}
            /\ CharAt(data, pos + 2) = "'"
    THEN 3 ELSE 0

RECURSIVE StringEnd(_, _)
\* "([^"\\]|\\.)*": where the string that is open after pos characters
\* ends (0: it does not end)
StringEnd(data, pos) ==
    IF CharAt(data, pos) = "" THEN 0
    ELSE IF CharAt(data, pos) = "\"" THEN pos + 1
    ELSE IF CharAt(data, pos) = "\\"
    THEN IF CharAt(data, pos + 1) \in {"", "\n"} THEN 0
         ELSE StringEnd(data, pos + 2)
    ELSE StringEnd(data, pos + 1)

StringLength(data, pos) ==
    IF CharAt(data, pos) = "\"" /\ StringEnd(data, pos + 1) > 0
    THEN StringEnd(data, pos + 1) - pos
    ELSE 0

\* the length of what a rule matches after pos characters (0: no match)
MatchLength(rule, data, pos) ==
    IF rule.form = "fixed"
    THEN IF pos + Len(rule.text) <= Len(data)
            /\ SubSeq(data, pos + 1, pos + Len(rule.text)) = rule.text
         THEN Len(rule.text) ELSE 0
    ELSE CASE rule.name = "NUMBER" -> NumberLength(data, pos)
           [] rule.name = "CHARACTER_LITERAL" -> CharacterLength(data, pos)
           [] rule.name = "STRING_LITERAL" -> StringLength(data, pos)
           [] rule.name = "IDENTIFIER" -> IdentifierLength(data, pos)
           [] rule.name = "NEWLINE" -> Run(data, pos, {"\n"})
           [] OTHER -> 0

\* the scanner skips the characters of t_ignore
SkipIgnored(data, pos) == pos + Run(data, pos, t_ignore)

Matches(rules, data, pos) ==
    \E i \in 1..Len(rules) : MatchLength(rules[i], data, pos) > 0

\* the first rule that matches
FirstMatch(rules, data, pos) ==
    rules[CHOOSE i \in 1..Len(rules) :
              /\ MatchLength(rules[i], data, pos) > 0
              /\ \A j \in 1..(i - 1) : MatchLength(rules[j], data, pos) = 0]

\* the token a rule function returns: t.type, and t.value with the column
Token(rule, data, pos) ==
    [type |-> IF rule.name = "IDENTIFIER"
              THEN keywords(SubSeq(data, pos + 1,
                                   pos + MatchLength(rule, data, pos)))
              ELSE rule.name,
     value |-> SubSeq(data, pos + 1, pos + MatchLength(rule, data, pos)),
     column |-> pos + 1]

\* what the lexer does not touch
outsideLexer ==
    <<lexdata, mirVars, sympc, unit, frames, scope_stack, offset,
      collect_mode, hist, annotations, typeVars, parseVars, reportVars,
      emitVars, genVars, lateVars>>

\* a rule matches: its function is called, and the token it returns (the
\* rule of the newlines returns none) is the next token
t_TOKEN ==
    /\ lexpc = "lexing"
    /\ SkipIgnored(lexdata, lexpos) < Len(lexdata)
    /\ Matches(LexRules, lexdata, SkipIgnored(lexdata, lexpos))
    /\ lexed' =
          IF FirstMatch(LexRules, lexdata,
                        SkipIgnored(lexdata, lexpos)).name = "NEWLINE"
          THEN lexed
          ELSE Append(lexed,
                      Token(FirstMatch(LexRules, lexdata,
                                       SkipIgnored(lexdata, lexpos)),
                            lexdata, SkipIgnored(lexdata, lexpos)))
    /\ lexpos' = SkipIgnored(lexdata, lexpos)
                 + MatchLength(FirstMatch(LexRules, lexdata,
                                          SkipIgnored(lexdata, lexpos)),
                               lexdata, SkipIgnored(lexdata, lexpos))
    /\ UNCHANGED <<lexpc, errors, outsideLexer>>

\* Lexer.t_error on a character no rule matches: the error is reported
\* (and raised, outside collect mode), else one character is skipped
LexError ==
    /\ lexpc = "lexing"
    /\ SkipIgnored(lexdata, lexpos) < Len(lexdata)
    /\ ~Matches(LexRules, lexdata, SkipIgnored(lexdata, lexpos))
    /\ errors' = add_error(errors, LexicalErrorRecord("unknown char"))
    /\ IF collect_mode
       THEN /\ lexpos' = SkipIgnored(lexdata, lexpos) + 1
            /\ lexpc' = lexpc
       ELSE /\ lexpos' = SkipIgnored(lexdata, lexpos)
            /\ lexpc' = "raised"
    /\ UNCHANGED <<lexed, outsideLexer>>

\* the end of the input: token() returns None
EndOfInput ==
    /\ lexpc = "lexing"
    /\ SkipIgnored(lexdata, lexpos) >= Len(lexdata)
    /\ lexpos' = Len(lexdata)
    /\ lexpc' = "done"
    /\ UNCHANGED <<lexed, errors, outsideLexer>>

NextLex == t_TOKEN \/ LexError \/ EndOfInput

(***************************************************************************)
(* generalize_type (sarac/analysis/types.py) applied to three types: to    *)
(* each pair in both orders, to a type and itself, and to the results, in  *)
(* both groupings.                                                         *)
(***************************************************************************)
Generalize ==
    /\ genpc = "ready"
    /\ generalized' =
          [ab |-> generalize_type(type_a, type_b),
           ba |-> generalize_type(type_b, type_a),
           aa |-> generalize_type(type_a, type_a),
           ab_c |-> generalize_type(generalize_type(type_a, type_b), type_c),
           a_bc |-> generalize_type(type_a, generalize_type(type_b, type_c))]
    /\ genpc' = "done"
    /\ UNCHANGED <<type_a, type_b, type_c, mirVars, symVars, typeVars,
                   parseVars, reportVars, emitVars, lexVars, lateVars>>

NextGeneralize == Generalize

(***************************************************************************)
(* One run of _dead_store_elimination on a function.                       *)
(***************************************************************************)
DeadStoreElimination ==
    /\ dsepc = "ready"
    /\ stores_eliminated' = dead_store_elimination(mir_func).f
    /\ dsepc' = "done"
    /\ UNCHANGED <<mir_func, mirVars, symVars, typeVars, parseVars,
                   reportVars, emitVars, lexVars, genVars, dagVars>>

NextDeadStores == DeadStoreElimination

(***************************************************************************)
(* The AST optimizer (sarac/optimization/optimizer.py).  The nodes of one  *)
(* top-level expression are objects: they are kept in an arena (nodes), a  *)
(* child slot holds the place of the node it refers to, and two slots      *)
(* refer to the same object when they hold the same place.                 *)
(***************************************************************************)
\* a top-level expression as the objects the parser built: every node of
\* the tree is an object of its own
RECURSIVE ToArena(_, _)
RECURSIVE ToArenaList(_, _, _, _)

ToArenaList(nodes, exprs, i, ids) ==
    IF i > Len(exprs) THEN [nodes |-> nodes, ids |-> ids]
    ELSE LET a == ToArena(nodes, exprs[i])
         IN  ToArenaList(a.nodes, exprs, i + 1, Append(ids, a.id))

ToArena(nodes, e) ==
    LET kids == CASE e.k = "un" -> ToArenaList(nodes, <<e.e>>, 1, <<>>)
                  [] e.k = "bin" -> ToArenaList(nodes, <<e.l, e.r>>, 1, <<>>)
                  [] e.k = "call" -> ToArenaList(nodes, e.args, 1, <<>>)
                  [] OTHER -> [nodes |-> nodes, ids |-> <<>>]
        node == CASE e.k \in {"un", "bin"} ->
                        [k |-> e.k, op |-> e.op, children |-> kids.ids]
                  [] e.k = "call" ->
                        [k |-> "call", name |-> e.name, arguments |-> kids.ids]
                  [] OTHER -> e
    IN  [nodes |-> Append(kids.nodes, node), id |-> Len(kids.nodes) + 1]

RECURSIVE FromArena(_, _)
\* the tree read from node id through the child slots
FromArena(nodes, id) ==
    LET n == nodes[id]
    IN  CASE n.k = "un" -> UnaryOperator(n.op, FromArena(nodes, n.children[1]))
          [] n.k = "bin" -> BinaryOperator(n.op,
                                           FromArena(nodes, n.children[1]),
                                           FromArena(nodes, n.children[2]))
          [] n.k = "call" ->
                FunctionCall(n.name, [i \in 1..Len(n.arguments) |->
                                         FromArena(nodes, n.arguments[i])])
          [] OTHER -> n

\* the children of a FunctionCall are its Identifier and its ArgumentList:
\* none of them is an Expression
FunctionCallChildren(n) == <<>>

\* the places of the children of a node that are Expression objects
ExpressionChildren(n) ==
    CASE n.k \in {"un", "bin"} -> n.children
      [] n.k = "call" -> FunctionCallChildren(n)
      [] OTHER -> <<>>

RECURSIVE canonical_key(_, _)
canonical_key(nodes, id) ==
    LET n == nodes[id]
    IN  CASE n.k = "const" ->
                [k |-> "const", type |-> n.val.ty, value |-> n.val]
          [] n.k = "ref" -> [k |-> "ref", name |-> n.name]
          [] n.k = "un" ->
                [k |-> "unary", op |-> n.op,
                 keys |-> <<canonical_key(nodes, n.children[1])>>]
          [] n.k = "bin" ->
                [k |-> "binary", op |-> n.op,
                 keys |-> <<canonical_key(nodes, n.children[1]),
                            canonical_key(nodes, n.children[2])>>]
          [] n.k = "call" ->
                [k |-> "call", name |-> n.name,
                 keys |-> [i \in 1..Len(n.arguments) |->
                              canonical_key(nodes, n.arguments[i])]]

\* dag_table is the list of its (key, node) entries
InTable(dag_table, key) == \E i \in 1..Len(dag_table) : dag_table[i].key = key

TableNode(dag_table, key) ==
    dag_table[CHOOSE i \in 1..Len(dag_table) : dag_table[i].key = key].node

\* the child slot is given the node entered first, whatever its key
ShareChildWithFirstEntry(s, id, i, child) ==
    IF Len(s.dag_table) > 0
    THEN [s EXCEPT !.nodes[id].children[i] = s.dag_table[1].node]
    ELSE [s EXCEPT !.dag_table =
                       Append(@, [key |-> canonical_key(s.nodes, child),
                                  node |-> child])]

\* "if child_key in self.dag_table: node.children[i] = ... else: ..."
ShareChild(s, id, i, child) ==
    LET child_key == canonical_key(s.nodes, child)
    IN  IF InTable(s.dag_table, child_key)
        THEN [s EXCEPT !.nodes[id].children[i] =
                           TableNode(s.dag_table, child_key)]
        ELSE [s EXCEPT !.dag_table =
                           Append(@, [key |-> child_key, node |-> child])]

\* the node itself is entered under its key when the key is new
EnterNode(s, id) ==
    LET key == canonical_key(s.nodes, id)
    IN  IF InTable(s.dag_table, key) THEN s
        ELSE [s EXCEPT !.dag_table = Append(@, [key |-> key, node |-> id])]

RECURSIVE BuildDAGVisitor(_, _)
RECURSIVE VisitChildren(_, _, _)

\* the loop over node.children from child i on
VisitChildren(s, id, i) ==
    IF i > Len(ExpressionChildren(s.nodes[id])) THEN s
    ELSE LET child == s.nodes[id].children[i]
         IN  VisitChildren(ShareChild(BuildDAGVisitor(s, child), id, i, child),
                           id, i + 1)

\* BuildDAGVisitor.visit(node)
BuildDAGVisitor(s, id) == EnterNode(VisitChildren(s, id, 1), id)

\* a top-level expression after "node.accept(BuildDAGVisitor())"
BuildDAG(e) ==
    LET a == ToArena(<<>>, e)
        s == BuildDAGVisitor([nodes |-> a.nodes, dag_table |-> <<>>], a.id)
    IN  [k |-> "dag", nodes |-> s.nodes, root |-> a.id]

\* what is done with an expression a statement holds
OnExpression(node, what) ==
    CASE what = "share" -> BuildDAG(node)
      [] what = "unfold" -> FromArena(node.nodes, node.root)
      [] what = "leave out" -> [k |-> "expression"]

RECURSIVE AcceptChildren(_, _)
\* accept_children down to the expressions the statements hold
AcceptChildren(node, what) ==
    LET each(s) == [i \in 1..Len(s) |-> AcceptChildren(s[i], what)]
    IN  CASE IsExpression(node) \/ node.k = "dag" -> OnExpression(node, what)
          [] node.k = "assign" ->
                [node EXCEPT !.e = AcceptChildren(@, what)]
          [] node.k = "return" -> [node EXCEPT !.oe = each(@)]
          [] node.k = "if" ->
                [node EXCEPT !.c = AcceptChildren(@, what),
                             !.t = AcceptChildren(@, what),
                             !.oel = each(@)]
          [] node.k = "while" ->
                [node EXCEPT !.c = AcceptChildren(@, what),
                             !.s = AcceptChildren(@, what)]
          [] node.k = "for" ->
                [node EXCEPT !.oinit = each(@), !.ocond = each(@),
                             !.ostep = each(@),
                             !.s = AcceptChildren(@, what)]
          [] node.k = "decl" -> [node EXCEPT !.oinit = each(@)]
          [] node.k = "compound" ->
                [node EXCEPT !.decls = each(@), !.stmts = each(@)]
          [] node.k = "fdef" ->
                [node EXCEPT !.body = AcceptChildren(@, what)]
          [] OTHER -> node

\* OptimizerVisitor.visit
OptimizerVisitor(node) == AcceptChildren(node, "share")

outsideAstOptimizer ==
    <<dag_in, mirVars, symVars, typeVars, parseVars, reportVars, emitVars,
      lexVars, genVars, dseVars>>

\* compile_phase_mir on the function as the parser built it
LowerParsed ==
    /\ dagpc = "ready"
    /\ mir_before = NoFunction
    /\ mir_before' = visit_function_definition(dag_in)
    /\ UNCHANGED <<dagpc, dag_out, mir_after, outsideAstOptimizer>>

\* compile_phase_optimization on a function definition
OptimizeAst ==
    /\ dagpc = "ready"
    /\ dag_out' = OptimizerVisitor(dag_in)
    /\ dagpc' = "done"
    /\ UNCHANGED <<mir_before, mir_after, outsideAstOptimizer>>

\* compile_phase_mir on the optimized function: visit_expression goes
\* down node.children at every use of a node and keeps nothing per node,
\* so it lowers the tree read through the child slots
LowerShared ==
    /\ dagpc = "done"
    /\ mir_after' = visit_function_definition(AcceptChildren(dag_out, "unfold"))
    /\ dagpc' = "lowered"
    /\ UNCHANGED <<dag_out, mir_before, outsideAstOptimizer>>

NextAstOptimizer == LowerParsed \/ OptimizeAst \/ LowerShared

(***************************************************************************)
(* The pipeline: lower the function, optimize it, optimize the result      *)
(* again.                                                                  *)
(***************************************************************************)
Init ==
    /\ pc = "parsed"
    /\ ast \in Programs
    /\ lowered = NoFunction
    /\ optimized = NoFunction
    /\ reoptimized = NoFunction
    /\ SymbolPassOff

\* MIRGenerator.visit on the function definition
Lower ==
    /\ pc = "parsed"
    /\ lowered' = visit_function_definition(ast)
    /\ pc' = "lowered"
    /\ UNCHANGED <<ast, optimized, reoptimized, symVars, phaseVars>>

\* optimize_mir on the lowered function
Optimize ==
    /\ pc = "lowered"
    /\ optimized' = optimize(lowered)
    /\ pc' = "optimized"
    /\ UNCHANGED <<ast, lowered, reoptimized, symVars, phaseVars>>

\* optimize_mir on its own output
Reoptimize ==
    /\ pc = "optimized"
    /\ reoptimized' = optimize(optimized)
    /\ pc' = "reoptimized"
    /\ UNCHANGED <<ast, lowered, optimized, symVars, phaseVars>>

Next == Lower \/ Optimize \/ Reoptimize

Spec == Init /\ [][Next]_vars

\* the same pipeline run on the programs "return e;"
InitFold ==
    /\ pc = "parsed"
    /\ ast \in FoldPrograms
    /\ lowered = NoFunction
    /\ optimized = NoFunction
    /\ reoptimized = NoFunction
    /\ SymbolPassOff

SpecFold == InitFold /\ [][Next]_vars

\* the symbol pass on a translation unit, in either error mode
InitSym ==
    /\ pc = "off"
    /\ ast = NoNode
    /\ lowered = NoFunction
    /\ optimized = NoFunction
    /\ reoptimized = NoFunction
    /\ sympc = "ready"
    /\ unit \in Units
    /\ collect_mode \in BOOLEAN
    /\ frames = <<>>
    /\ scope_stack = <<>>
    /\ offset = 0
    /\ errors = <<>>
    /\ hist = HistStart
    /\ annotations = <<>>
    /\ PhasesOff

SpecSym == InitSym /\ [][NextSym]_vars

(***************************************************************************)
(* The translation units the type pass is run on: int g(int a), then a     *)
(* function f that declares int x and float y and has one statement whose  *)
(* expression has at most MaxTypeNodes nodes.                              *)
(***************************************************************************)
MaxTypeNodes == 3

StringLit == [form |-> "lexeme", ty |-> "string", n |-> 0, d |-> 1]

TypeLeaves ==
    {One, Constant(FloatLit(3, 2)), Constant(StringLit), Reference("x"),
     Reference("y"), Reference("z"), Reference("g"),
     FunctionCall("g", <<>>), FunctionCall("print", <<>>)}

RECURSIVE TypeExpressionsOfSize(_)
TypeExpressionsOfSize(n) ==
    IF n = 1 THEN TypeLeaves
    ELSE {UnaryOperator("-", e) : e \in TypeExpressionsOfSize(n - 1)}
         \cup {FunctionCall(c, <<e>>) : c \in {"g", "print", "x"},
                                        e \in TypeExpressionsOfSize(n - 1)}
         \cup UNION {{BinaryOperator("+", l, r) :
                         l \in TypeExpressionsOfSize(j),
                         r \in TypeExpressionsOfSize(n - 1 - j)} :
                     j \in 1..(n - 2)}
         \cup UNION {{FunctionCall(c, <<l, r>>) :
                         c \in {"g", "print"},
                         l \in TypeExpressionsOfSize(j),
                         r \in TypeExpressionsOfSize(n - 1 - j)} :
                     j \in 1..(n - 2)}

TypeExpressions == UNION {TypeExpressionsOfSize(n) : n \in 1..MaxTypeNodes}

TypeStatements ==
    {Return(<<>>), CompoundStatement(<<>>, <<AssignX>>)}
    \cup {Assignment("x", e) : e \in TypeExpressions}
    \cup {Return(<<e>>) : e \in TypeExpressions}
    \cup {e \in TypeExpressions : e.k = "call"}

FunctionG ==
    FunctionDefinition("g", "int", <<Declaration("int", "a", <<>>)>>,
                       CompoundStatement(<<>>, <<Return(<<Reference("a")>>)>>))

TypeUnits ==
    {<<FunctionG,
       FunctionDefinition("f", rt, <<>>,
                          CompoundStatement(<<Declaration("int", "x", <<>>),
                                              Declaration("float", "y", <<>>)>>,
                                            <<st>>))>> :
        rt \in {"int", "float", "void"}, st \in TypeStatements}

\* the symbol pass and then the type pass, in either error mode
InitType ==
    /\ pc = "off"
    /\ ast = NoNode
    /\ lowered = NoFunction
    /\ optimized = NoFunction
    /\ reoptimized = NoFunction
    /\ sympc = "ready"
    /\ unit \in TypeUnits
    /\ collect_mode \in BOOLEAN
    /\ frames = <<>>
    /\ scope_stack = <<>>
    /\ offset = 0
    /\ errors = <<>>
    /\ hist = HistStart
    /\ annotations = <<>>
    /\ typc = "ready"
    /\ typed = NoVisitor
    /\ ParserOff
    /\ ReportsOff
    /\ EmitterOff
    /\ RestOff

SpecType == InitType /\ [][NextType]_vars

(***************************************************************************)
(* The sources the parser is run on: at most MaxTokens tokens.             *)
(***************************************************************************)
MaxTokens == 5

TokenKinds == {"t", "x", ";", "{", "@"}

Sources ==
    {[tokens |-> toks, complete |-> c] :
        toks \in UNION {[1..n -> TokenKinds] : n \in 0..MaxTokens},
        c \in BOOLEAN}

\* the parse of a source, in either error mode
InitParse ==
    /\ pc = "off"
    /\ ast = NoNode
    /\ lowered = NoFunction
    /\ optimized = NoFunction
    /\ reoptimized = NoFunction
    /\ sympc = "off"
    /\ unit = <<>>
    /\ frames = <<>>
    /\ scope_stack = <<>>
    /\ offset = 0
    /\ errors = <<>>
    /\ collect_mode \in BOOLEAN
    /\ hist = HistStart
    /\ annotations = <<>>
    /\ TypePassOff
    /\ parpc = "ready"
    /\ source \in Sources
    /\ tokens = <<>>
    /\ error_count = 0
    /\ ReportsOff
    /\ EmitterOff
    /\ RestOff

SpecParse == InitParse /\ [][NextParse]_vars

\* a compilation that reports errors, in either error mode
InitReport ==
    /\ pc = "off"
    /\ ast = NoNode
    /\ lowered = NoFunction
    /\ optimized = NoFunction
    /\ reoptimized = NoFunction
    /\ sympc = "off"
    /\ unit = <<>>
    /\ frames = <<>>
    /\ scope_stack = <<>>
    /\ offset = 0
    /\ errors = <<>>
    /\ collect_mode \in BOOLEAN
    /\ hist = HistStart
    /\ annotations = <<>>
    /\ TypePassOff
    /\ ParserOff
    /\ reppc = "running"
    /\ reported = 0
    /\ EmitterOff
    /\ RestOff

SpecReport == InitReport /\ [][NextReport]_vars

(***************************************************************************)
(* The modules the emitter is run on.  Each is the lowered and optimized   *)
(* MIR of a translation unit the front end accepts without a report:       *)
(* int g(int a), int h(int a, int b), a function f that declares int x,    *)
(* float y, char c and string s = "ab" and has two statements, and, in     *)
(* some units, int k(string p) that prints.  The type pass does not        *)
(* compare a call with the parameters of its callee, so f may call g and   *)
(* h with any number of arguments.  var_types records the type of a        *)
(* declared local; VarTypeExtents are the readings of which locals it      *)
(* holds.                                                                  *)
(***************************************************************************)
CharLit == [form |-> "lexeme", ty |-> "char", n |-> 97, d |-> 1]

X == Reference("x")
Y == Reference("y")
Half == Constant(FloatLit(3, 2))

IntExpressions ==
    {One, X, BinaryOperator("+", X, One), BinaryOperator("<", X, One),
     BinaryOperator("%", X, One),
     FunctionCall("g", <<One>>), FunctionCall("g", <<X>>),
     FunctionCall("h", <<One, FunctionCall("g", <<X>>)>>),
     FunctionCall("h", <<FunctionCall("g", <<One>>), X>>),
     FunctionCall("g", <<>>), FunctionCall("g", <<One, X>>),
     FunctionCall("h", <<One>>),
     FunctionCall("h", <<X, FunctionCall("h", <<One>>)>>)}

FloatExpressions ==
    {Half, Y, BinaryOperator("+", Y, Half), BinaryOperator("*", X, Y),
     BinaryOperator("/", Y, X), BinaryOperator("-", Half, X)}

CharExpressions == {Constant(CharLit), Reference("c")}

StringExpressions == {Constant(StringLit), Reference("s")}

PrintArgumentLists ==
    {<<>>}
    \cup {<<e>> : e \in {One, X, Half, Y, Constant(CharLit), Reference("c"),
                         Constant(StringLit), Reference("s"),
                         FunctionCall("g", <<One>>),
                         FunctionCall("g", <<One, X>>)}}
    \cup {<<a, b>> : a \in {One, Y, Reference("c")},
                     b \in {X, Half, Constant(StringLit)}}

SimpleStatements ==
    {Assignment("x", e) : e \in IntExpressions}
    \cup {Assignment("y", e) : e \in FloatExpressions}
    \cup {Assignment("c", e) : e \in CharExpressions}
    \cup {Assignment("s", e) : e \in StringExpressions}
    \cup {e \in IntExpressions : e.k = "call"}
    \cup {FunctionCall("print", l) : l \in PrintArgumentLists}

ReturnsOf(rt) ==
    IF rt = "char" THEN {Return(<<e>>) : e \in CharExpressions}
    ELSE {Return(<<e>>) : e \in {One, X, FunctionCall("g", <<X>>)}}

LastStatements(rt) ==
    ReturnsOf(rt)
    \cup {FunctionCall("print", <<>>), FunctionCall("print", <<X>>),
          FunctionCall("print", <<One, Half>>), Assignment("x", One),
          If(BinaryOperator("<", X, One),
             FunctionCall("print", <<X>>), <<>>),
          While(X, FunctionCall("print", <<Y>>)),
          While(BinaryOperator("<", X, One), Assignment("x", One))}

FirstStatements(rt) ==
    SimpleStatements \cup ReturnsOf(rt)
    \cup {If(X, st, <<>>) : st \in {FunctionCall("print", <<X>>),
                                    Assignment("y", Half)}}

FunctionH ==
    FunctionDefinition("h", "int", <<Declaration("int", "a", <<>>),
                                     Declaration("int", "b", <<>>)>>,
                       CompoundStatement(<<>>, <<Return(<<Reference("b")>>)>>))

FunctionK ==
    FunctionDefinition(
        "k", "int", <<Declaration("string", "p", <<>>)>>,
        CompoundStatement(<<>>, <<FunctionCall("print", <<Reference("p")>>),
                                  FunctionCall("print", <<One>>),
                                  FunctionCall("print", <<>>)>>))

EmitUnits ==
    UNION {{<<FunctionG, FunctionH,
              FunctionDefinition(
                  "f", rt, <<>>,
                  CompoundStatement(
                      <<Declaration("int", "x", <<>>),
                        Declaration("float", "y", <<>>),
                        Declaration("char", "c", <<>>),
                        Declaration("string", "s", <<Constant(StringLit)>>)>>,
                      <<s1, s2>>))>> \o printing :
              s1 \in FirstStatements(rt), s2 \in LastStatements(rt),
              printing \in {<<>>, <<FunctionK>>}} :
           rt \in {"int", "char"}}

VarTypeExtents == {"initialized", "declared", "parameters"}

\* the declarations whose types var_types holds
Recorded(fd, extent) ==
    SelectSeq(fd.body.decls,
              LAMBDA d : extent # "initialized" \/ Len(d.oinit) > 0)
    \o (IF extent = "parameters" THEN fd.params ELSE <<>>)

var_types(fd, extent) ==
    [v \in {Recorded(fd, extent)[i].name :
               i \in 1..Len(Recorded(fd, extent))} |->
        Recorded(fd, extent)[
            CHOOSE i \in 1..Len(Recorded(fd, extent)) :
                Recorded(fd, extent)[i].name = v].ty]

\* the MIR function the emitter gets: MIRGenerator.visit_function_definition
\* and optimize_mir, with the types of the parameters and of the locals
Compiled(fd, m, extent) ==
    [name |-> m.name, return_type |-> m.return_type,
     parameters |-> m.parameters,
     parameter_types |-> [i \in 1..Len(fd.params) |-> fd.params[i].ty],
     var_types |-> var_types(fd, extent), blocks |-> m.blocks]

CompiledUnit(u, extent) ==
    [i \in 1..Len(u) |->
        Compiled(u[i], optimize(visit_function_definition(u[i])), extent)]

\* compile_phase_codegen on the optimized MIR of a unit
InitEmit ==
    /\ pc = "off"
    /\ ast = NoNode
    /\ lowered = NoFunction
    /\ optimized = NoFunction
    /\ reoptimized = NoFunction
    /\ sympc = "off"
    /\ unit = <<>>
    /\ frames = <<>>
    /\ scope_stack = <<>>
    /\ offset = 0
    /\ errors = <<>>
    /\ collect_mode = FALSE
    /\ hist = HistStart
    /\ annotations = <<>>
    /\ TypePassOff
    /\ ParserOff
    /\ ReportsOff
    /\ empc = "ready"
    /\ mir_functions \in {CompiledUnit(u, extent) :
                             u \in EmitUnits, extent \in VarTypeExtents}
    /\ emitter = LLVMGenerator
    /\ cursor = NoCursor
    /\ RestOff

SpecEmit == InitEmit /\ [][NextEmit]_vars

(***************************************************************************)
(* The inputs of the lexer: the texts of at most MaxLexLen characters over *)
(* the operators that begin alike, a letter of a keyword, a digit, a       *)
(* space and a character no rule matches.                                  *)
(***************************************************************************)
MaxLexLen == 4

LexAlphabet == {"<", ">", "=", "!", "i", "f", "1", " ", "#"}

LexTexts == UNION {[1..n -> LexAlphabet] : n \in 0..MaxLexLen}

\* Lexer.build and lexer.input(text)
InitLex ==
    /\ pc = "off"
    /\ ast = NoNode
    /\ lowered = NoFunction
    /\ optimized = NoFunction
    /\ reoptimized = NoFunction
    /\ sympc = "off"
    /\ unit = <<>>
    /\ frames = <<>>
    /\ scope_stack = <<>>
    /\ offset = 0
    /\ errors = <<>>
    /\ collect_mode \in BOOLEAN
    /\ hist = HistStart
    /\ annotations = <<>>
    /\ TypePassOff
    /\ ParserOff
    /\ ReportsOff
    /\ EmitterOff
    /\ lexpc = "lexing"
    /\ lexdata \in LexTexts
    /\ lexpos = 0
    /\ lexed = <<>>
    /\ GeneralizeOff
    /\ LateOff

SpecLex == InitLex /\ [][NextLex]_vars

\* the type descriptors, and None ("")
TypeDescriptors == {"char", "int", "float", "string", "void", NoType}

\* generalize_type is called on any three of them
InitGeneralize ==
    /\ pc = "off"
    /\ ast = NoNode
    /\ lowered = NoFunction
    /\ optimized = NoFunction
    /\ reoptimized = NoFunction
    /\ sympc = "off"
    /\ unit = <<>>
    /\ frames = <<>>
    /\ scope_stack = <<>>
    /\ offset = 0
    /\ errors = <<>>
    /\ collect_mode = FALSE
    /\ hist = HistStart
    /\ annotations = <<>>
    /\ TypePassOff
    /\ ParserOff
    /\ ReportsOff
    /\ EmitterOff
    /\ LexerOff
    /\ genpc = "ready"
    /\ type_a \in TypeDescriptors
    /\ type_b \in TypeDescriptors
    /\ type_c \in TypeDescriptors
    /\ generalized = NotGeneralized
    /\ LateOff

SpecGeneralize == InitGeneralize /\ [][NextGeneralize]_vars

(***************************************************************************)
(* The programs that hold every operator the parser accepts: "return e;"   *)
(* for every expression e of at most MaxOperatorNodes nodes.               *)
(***************************************************************************)
MaxOperatorNodes == 3

\* p_binary_expression and p_unary_operator
ParserBinaryOperators ==
    {"==", "!=", "<", "<=", ">", ">=", "+", "-", "*", "/"}
ParserUnaryOperators == {"!", "-", "+"}

RECURSIVE OperatorExpressionsOfSize(_)
OperatorExpressionsOfSize(n) ==
    IF n = 1 THEN {Reference("a"), One}
    ELSE {UnaryOperator(op, e) : op \in ParserUnaryOperators,
                                 e \in OperatorExpressionsOfSize(n - 1)}
         \cup {FunctionCall("g", <<e>>) : e \in OperatorExpressionsOfSize(n - 1)}
         \cup UNION {{BinaryOperator(op, l, r) :
                         op \in ParserBinaryOperators,
                         l \in OperatorExpressionsOfSize(j),
                         r \in OperatorExpressionsOfSize(n - 1 - j)} :
                     j \in 1..(n - 2)}

OperatorPrograms ==
    {FunctionDefinition("f", "int", <<>>,
                        CompoundStatement(<<>>, <<Return(<<e>>)>>)) :
        e \in UNION {OperatorExpressionsOfSize(n) : n \in 1..MaxOperatorNodes}}

InitOperators ==
    /\ pc = "parsed"
    /\ ast \in OperatorPrograms
    /\ lowered = NoFunction
    /\ optimized = NoFunction
    /\ reoptimized = NoFunction
    /\ SymbolPassOff

SpecOperators == InitOperators /\ [][Next]_vars

(***************************************************************************)
(* The programs whose behaviour is compared before and after optimize:     *)
(* at most MaxBehaviourStatements statements over s and n (stores, loops   *)
(* that read what was stored before them, an if, a call) and "return s;".  *)
(* They are lowered to blocks that each end with their one terminator.     *)
(***************************************************************************)
MaxBehaviourStatements == 3

Two == Constant(IntLit(2))

BehaviourStatements ==
    {Assignment("s", Zero),
     Assignment("s", BinaryOperator("+", Reference("s"), One)),
     While(BinaryOperator("<", Reference("s"), Two),
           Assignment("s", BinaryOperator("+", Reference("s"), One))),
     While(Reference("n"),
           Assignment("n", BinaryOperator("-", Reference("n"), One))),
     If(Reference("n"), Assignment("s", One), <<>>),
     FunctionCall("g", <<Reference("s")>>)}

RECURSIVE BehaviourBodies(_)
BehaviourBodies(n) ==
    IF n = 0 THEN {<<>>}
    ELSE {Append(l, st) : l \in BehaviourBodies(n - 1),
                          st \in BehaviourStatements}

BehaviourPrograms ==
    {FunctionDefinition("f", "int", <<>>,
         CompoundStatement(<<>>, Append(l, Return(<<Reference("s")>>)))) :
        l \in UNION {BehaviourBodies(n) : n \in 0..MaxBehaviourStatements}}

InitBehaviour ==
    /\ pc = "parsed"
    /\ ast \in BehaviourPrograms
    /\ lowered = NoFunction
    /\ optimized = NoFunction
    /\ reoptimized = NoFunction
    /\ SymbolPassOff

SpecBehaviour == InitBehaviour /\ [][Next]_vars

(***************************************************************************)
(* The functions dead store elimination is run on: the lowering of every   *)
(* body of at most MaxStoreStatements statements that store to and load    *)
(* from x and y, in one block and in several.                              *)
(***************************************************************************)
MaxStoreStatements == 3

StoreStatements ==
    {Assignment("x", One), Assignment("x", Reference("y")),
     Assignment("y", Reference("x")), Assignment("y", Zero),
     Return(<<Reference("x")>>),
     If(Reference("x"), Assignment("y", One), <<>>),
     While(Reference("c"), Assignment("x", Zero))}

RECURSIVE StoreBodies(_)
\* the bodies of exactly n statements
StoreBodies(n) ==
    IF n = 0 THEN {<<>>}
    ELSE {Append(l, st) : l \in StoreBodies(n - 1), st \in StoreStatements}

StoreFunctions ==
    {visit_function_definition(
         FunctionDefinition("f", "int", <<>>, CompoundStatement(<<>>, l))) :
        l \in UNION {StoreBodies(n) : n \in 0..MaxStoreStatements}}

InitDeadStores ==
    /\ pc = "off"
    /\ ast = NoNode
    /\ lowered = NoFunction
    /\ optimized = NoFunction
    /\ reoptimized = NoFunction
    /\ sympc = "off"
    /\ unit = <<>>
    /\ frames = <<>>
    /\ scope_stack = <<>>
    /\ offset = 0
    /\ errors = <<>>
    /\ collect_mode = FALSE
    /\ hist = HistStart
    /\ annotations = <<>>
    /\ TypePassOff
    /\ ParserOff
    /\ ReportsOff
    /\ EmitterOff
    /\ LexerOff
    /\ GeneralizeOff
    /\ dsepc = "ready"
    /\ mir_func \in StoreFunctions
    /\ stores_eliminated = NoFunction
    /\ AstOptimizerOff

SpecDeadStores == InitDeadStores /\ [][NextDeadStores]_vars

(***************************************************************************)
(* The functions the AST optimizer is run on: one statement that holds an  *)
(* expression of at most MaxDagNodes nodes over a, b and 1, with +, unary  *)
(* - and calls of f, so that equal subexpressions occur inside operators,  *)
(* inside the arguments of a call and as calls.                            *)
(***************************************************************************)
MaxDagNodes == 5

DagLeaves == {Reference("a"), Reference("b"), One}

RECURSIVE DagExpressionsOfSize(_)
\* the expressions made of exactly n nodes
DagExpressionsOfSize(n) ==
    IF n = 1 THEN DagLeaves
    ELSE {UnaryOperator("-", e) : e \in DagExpressionsOfSize(n - 1)}
         \cup {FunctionCall("f", <<e>>) : e \in DagExpressionsOfSize(n - 1)}
         \cup UNION {{BinaryOperator("+", l, r) :
                         l \in DagExpressionsOfSize(j),
                         r \in DagExpressionsOfSize(n - 1 - j)} :
                     j \in 1..(n - 2)}
         \cup UNION {{FunctionCall("f", <<l, r>>) :
                         l \in DagExpressionsOfSize(j),
                         r \in DagExpressionsOfSize(n - 1 - j)} :
                     j \in 1..(n - 2)}

DagExpressions == UNION {DagExpressionsOfSize(n) : n \in 1..MaxDagNodes}

DagStatements ==
    {Assignment("x", e) : e \in DagExpressions}
    \cup {Return(<<e>>) : e \in DagExpressions}
    \cup {If(e, AssignX, <<>>) : e \in DagExpressions}
    \cup {While(e, Assignment("x", e)) : e \in DagExpressions}

DagPrograms ==
    {FunctionDefinition("f", "int", <<>>, CompoundStatement(<<>>, <<st>>)) :
        st \in DagStatements}

InitAstOptimizer ==
    /\ pc = "off"
    /\ ast = NoNode
    /\ lowered = NoFunction
    /\ optimized = NoFunction
    /\ reoptimized = NoFunction
    /\ sympc = "off"
    /\ unit = <<>>
    /\ frames = <<>>
    /\ scope_stack = <<>>
    /\ offset = 0
    /\ errors = <<>>
    /\ collect_mode = FALSE
    /\ hist = HistStart
    /\ annotations = <<>>
    /\ TypePassOff
    /\ ParserOff
    /\ ReportsOff
    /\ EmitterOff
    /\ LexerOff
    /\ GeneralizeOff
    /\ DeadStoresOff
    /\ dagpc = "ready"
    /\ dag_in \in DagPrograms
    /\ dag_out = NoNode
    /\ mir_before = NoFunction
    /\ mir_after = NoFunction

SpecAstOptimizer == InitAstOptimizer /\ [][NextAstOptimizer]_vars

(***************************************************************************)
(* Notions the properties share.                                           *)
(***************************************************************************)
\* a block's instructions end in a terminator and hold no other terminator
WellTerminated(ins) ==
    /\ Len(ins) > 0
    /\ ins[Len(ins)].op \in Terminators
    /\ \A i \in 1..(Len(ins) - 1) : ins[i].op \notin Terminators

\* the labels control can reach from the entry block, each block left by
\* its first terminator
ExecReachable(f) ==
    ReachFrom(build_cfg(remove_dead_instructions(f).f), {}, {EntryLabel(f)})

\* a function's blocks without their CFG lists
Plain(f) ==
    [i \in 1..Len(f.blocks) |->
        [label |-> f.blocks[i].label,
         instructions |-> f.blocks[i].instructions]]

\* every label a jump or branch of the function names
InstructionTargets(instr) ==
    {Targets(instr)[n] : n \in 1..Len(Targets(instr))}

TargetLabels(f) ==
    UNION {UNION {InstructionTargets(f.blocks[i].instructions[j]) :
                     j \in 1..Len(f.blocks[i].instructions)} :
           i \in 1..Len(f.blocks)}

\* C1: after lowering, every block reachable from entry ends in exactly one
\* terminator and holds no other terminator.
C1_LoweredBlocksTerminated ==
    pc = "lowered" =>
        \A i \in 1..Len(lowered.blocks) :
            lowered.blocks[i].label \in ExecReachable(lowered)
                => WellTerminated(lowered.blocks[i].instructions)

\* C2: after optimize, every label a jump or branch names is the label of a
\* block still in the function.
C2_TargetsExistAfterOptimize ==
    pc = "optimized" =>
        \A l \in TargetLabels(optimized) : HasBlock(optimized, l)

\* C3: optimize is idempotent: optimizing the optimized function again
\* leaves the same blocks, in the same order, with the same instructions.
C3_OptimizeIdempotent ==
    pc = "reoptimized" => Plain(reoptimized) = Plain(optimized)

\* the function as the generator holds it when it reaches the i-th
\* statement of the body
BeforeStatement(fd, i) ==
    visit_statements(visit_declarations(EnterFunction(fd), fd.body.decls, 1),
                     SubSeq(fd.body.stmts, 1, i - 1), 1)

\* visit_while creates cond, body and merge in this order
WhileBodyLabel(f) == "BB" \o ToString(f.label_counter + 1)

IsWhileZero(node) == node.k = "while" /\ node.c = Zero

\* C5: for while (0) S, the loop's body block is not in the function after
\* lowering and optimize.
C5_WhileZeroBodyRemoved ==
    pc = "optimized" =>
        \A i \in 1..Len(ast.body.stmts) :
            IsWhileZero(ast.body.stmts[i])
                => ~HasBlock(optimized, WhileBodyLabel(BeforeStatement(ast, i)))

\* the body of the function does not end with a return statement
NoFinalReturn(fd) ==
    \/ Len(fd.body.stmts) = 0
    \/ fd.body.stmts[Len(fd.body.stmts)].k # "return"

\* ins ends with "tN = const 0; retval tN"
EndsWithImplicitRetval(ins) ==
    /\ Len(ins) >= 2
    /\ ins[Len(ins) - 1].op = "const"
    /\ ins[Len(ins) - 1].val = PyInt(0)
    /\ ins[Len(ins)].op = "retval"
    /\ ins[Len(ins)].args = <<ins[Len(ins) - 1].res>>

EndsWithPlainReturn(ins) ==
    Len(ins) >= 1 /\ ins[Len(ins)].op = "return"

\* C6: when the body does not end with a return statement, the block in
\* which lowering ends receives "tN = const 0; retval tN" in a non-void
\* function and "return" in a void function.
C6_ImplicitReturnInLastBlock ==
    (pc = "lowered" /\ NoFinalReturn(ast)) =>
        LET ins == BlockOf(lowered, lowered.cur).instructions
        IN  IF ast.rt # "void" THEN EndsWithImplicitRetval(ins)
            ELSE EndsWithPlainReturn(ins)

\* C7: after optimize, every block left in the function ends with exactly
\* one terminator and has nothing after it; none is empty.
C7_OptimizedBlocksTerminated ==
    pc = "optimized" =>
        \A i \in 1..Len(optimized.blocks) :
            WellTerminated(optimized.blocks[i].instructions)

\* a non-entry block whose only instruction is an unconditional jump
JumpOnly(b) ==
    /\ b.label # "entry"
    /\ Len(b.instructions) = 1
    /\ b.instructions[1].op = "jump"

RECURSIVE ChainEnd(_, _, _)
\* the label the chain of jump-only blocks starting at label ends in, or ""
\* when the chain leaves the function or runs in a circle
ChainEnd(f, label, fuel) ==
    IF ~HasBlock(f, label) \/ fuel = 0 THEN ""
    ELSE IF JumpOnly(BlockOf(f, label))
    THEN ChainEnd(f, BlockOf(f, label).instructions[1].args[1], fuel - 1)
    ELSE label

RECURSIVE ChainLabels(_, _, _)
\* the labels of the jump-only blocks of the chain starting at label
ChainLabels(f, label, fuel) ==
    IF ~HasBlock(f, label) \/ fuel = 0 THEN {}
    ELSE IF JumpOnly(BlockOf(f, label))
    THEN {label} \cup
         ChainLabels(f, BlockOf(f, label).instructions[1].args[1], fuel - 1)
    ELSE {}

\* the terminator that ends the block: its first one
Terminator(b) ==
    LET ins == TrimBlock(b.instructions) IN ins[Len(ins)]

HasTerminator(b) ==
    \E i \in 1..Len(b.instructions) : b.instructions[i].op \in Terminators

\* P names, in operand pos of its terminator, the first block E1 of a chain
\* of jump-only blocks that ends in a block T that is not empty
IsChain(f, p, pos) ==
    /\ p.label \in ExecReachable(f)
    /\ ~JumpOnly(p)
    /\ HasTerminator(p)
    /\ Terminator(p).op \in {"jump", "branch"}
    /\ pos \in 1..Len(Terminator(p).args)
    /\ HasBlock(f, Terminator(p).args[pos])
    /\ JumpOnly(BlockOf(f, Terminator(p).args[pos]))
    /\ LET t == ChainEnd(f, Terminator(p).args[pos], Len(f.blocks))
       IN  /\ t # ""
           /\ ~IsEmptyBlock([BlockOf(f, t) EXCEPT
                                !.instructions = TrimBlock(@)])

\* after optimize P names T where it named E1, T is there and no Ei is
ChainCollapsed(f, g, p, pos) ==
    LET e1 == Terminator(p).args[pos]
        t == ChainEnd(f, e1, Len(f.blocks))
    IN  /\ HasBlock(g, p.label)
        /\ HasTerminator(BlockOf(g, p.label))
        /\ Terminator(BlockOf(g, p.label)).args[pos] = t
        /\ HasBlock(g, t)
        /\ \A e \in ChainLabels(f, e1, Len(f.blocks)) : ~HasBlock(g, e)

\* C8: for a chain P -> E1 -> ... -> Ek -> T of jump-only blocks Ei and a
\* non-empty T, after optimize every Ei is removed, T is present and P's
\* terminator names T where it named E1.
C8_EmptyChainCollapses ==
    pc = "optimized" =>
        \A i \in 1..Len(lowered.blocks) : \A pos \in 1..3 :
            IsChain(lowered, lowered.blocks[i], pos)
                => ChainCollapsed(lowered, optimized, lowered.blocks[i], pos)

\* the instructions of all blocks of f, in order
AllInstructions(f) ==
    Flatten([i \in 1..Len(f.blocks) |-> f.blocks[i].instructions])

Defines(ins, t) == \E i \in 1..Len(ins) : ins[i].res = t

\* the instruction that defines temporary t
DefOf(ins, t) == ins[CHOOSE i \in 1..Len(ins) : ins[i].res = t]

\* integer division that truncates toward zero
TruncDiv(a, b) ==
    IF b = 0 THEN 0
    ELSE IF (a < 0) = (b < 0) THEN Abs(a) \div Abs(b)
    ELSE -(Abs(a) \div Abs(b))

RECURSIVE TruncEval(_, _)
\* the value of temporary t when the instructions are run with integer
\* arithmetic whose division truncates
TruncEval(ins, t) ==
    LET d == DefOf(ins, t)
    IN  CASE d.op = "const" -> d.val.n
          [] d.op = "add" -> TruncEval(ins, d.args[1]) + TruncEval(ins, d.args[2])
          [] d.op = "sub" -> TruncEval(ins, d.args[1]) - TruncEval(ins, d.args[2])
          [] d.op = "mul" -> TruncEval(ins, d.args[1]) * TruncEval(ins, d.args[2])
          [] d.op = "div" ->
                TruncDiv(TruncEval(ins, d.args[1]), TruncEval(ins, d.args[2]))
          [] d.op = "neg" -> -TruncEval(ins, d.args[1])
          [] OTHER -> 0

\* the instructions compute an expression over integer literals with add,
\* sub, mul, div and neg, and return it
IntegerExpression(ins) ==
    /\ Len(ins) >= 2
    /\ ins[Len(ins)].op = "retval"
    /\ \A i \in 1..(Len(ins) - 1) :
          /\ ins[i].op \in {"const", "add", "sub", "mul", "div", "neg"}
          /\ ins[i].op = "const" => ins[i].val.ty = "int"

NoZeroDivisor(ins) ==
    \A i \in 1..Len(ins) :
        ins[i].op = "div" => TruncEval(ins, ins[i].args[2]) # 0

\* C4: for an expression over integer literals with add, sub, mul, div and
\* neg and no zero divisor, the constant folding leaves in the result
\* temporary is the value of the unfolded instructions under integer
\* arithmetic with truncating division.
C4_FoldEqualsTruncatingEvaluation ==
    (/\ pc = "optimized"
     /\ IntegerExpression(AllInstructions(lowered))
     /\ NoZeroDivisor(AllInstructions(lowered))) =>
        LET ins == AllInstructions(lowered)
            t == ins[Len(ins)].args[1]
            out == AllInstructions(optimized)
        IN  /\ Defines(out, t)
            /\ DefOf(out, t).op = "const"
            /\ ToNumber(DefOf(out, t).val) = PyInt(TruncEval(ins, t))

\* t is a known constant 0 or 0.0: the instruction that defines it is a
\* const of that value
KnownZero(ins, t) ==
    /\ Defines(ins, t)
    /\ DefOf(ins, t).op = "const"
    /\ IsNumber(ToNumber(DefOf(ins, t).val))
    /\ IsZero(ToNumber(DefOf(ins, t).val))

\* instr divides by a known constant zero
DividesByZero(f, instr) ==
    /\ instr.op \in {"div", "mod"}
    /\ Len(instr.args) >= 2
    /\ KnownZero(AllInstructions(f), instr.args[2])

Uses(instr, t) == \E a \in 1..Len(instr.args) : instr.args[a] = t

InBlock(f, label, instr) ==
    /\ HasBlock(f, label)
    /\ SeqContains(BlockOf(f, label).instructions, instr)

\* C9: a div or mod whose right operand is a known constant zero is still
\* there after optimize with the same op, operands and result, and so is
\* every instruction that uses its result: the result is not a known
\* constant.
C9_DivisionByZeroNotFolded ==
    pc = "optimized" =>
        \A i \in 1..Len(lowered.blocks) :
            LET b == lowered.blocks[i]
            IN  \A j \in 1..Len(b.instructions) :
                    DividesByZero(optimized, b.instructions[j]) =>
                        /\ InBlock(optimized, b.label, b.instructions[j])
                        /\ \A k \in 1..Len(b.instructions) :
                              Uses(b.instructions[k], b.instructions[j].res)
                                  => InBlock(optimized, b.label,
                                             b.instructions[k])

\* a division by a folded zero is kept, and so is the arithmetic on its
\* result
C9_Witness ==
    /\ pc = "optimized"
    /\ \E j, k \in 1..Len(lowered.blocks[1].instructions) :
          LET ins == lowered.blocks[1].instructions
          IN  /\ DividesByZero(optimized, ins[j])
              /\ Uses(ins[k], ins[j].res)
              /\ ins[k].op \in ArithmeticOps \cup UnaryOps
              /\ InBlock(optimized, "entry", ins[j])
              /\ InBlock(optimized, "entry", ins[k])

\* C10: the symbol pass keeps the scope stack balanced: every compound
\* statement and function definition is left at the depth it was entered
\* at, no lookup is answered by the scope of a node that has been left, and
\* when the pass ends only the global scope is on the stack.
C10_ScopeStackBalanced ==
    /\ \A i \in 1..Len(hist.left) : hist.left[i].after = hist.left[i].before
    /\ hist.stale = {}
    /\ sympc = "done" => Len(scope_stack) = 1

\* the claim's condition for put to bind name with attributes of this kind
Bindable(stack, name, kind) ==
    /\ name \notin DOMAIN stack[Len(stack)]
    /\ \A i \in 1..(Len(stack) - 1) :
          name \in DOMAIN stack[i] => stack[i][name].kind = kind

\* the binding of the innermost scope that contains name
InnermostBinding(stack, name) ==
    LET has == {i \in 1..Len(stack) : name \in DOMAIN stack[i]}
    IN  IF has = {} THEN NoAttributes
        ELSE stack[CHOOSE i \in has : \A j \in has : j <= i][name]

\* the stack with name bound in its top scope
BoundInTop(stack, name, attributes) ==
    [stack EXCEPT ![Len(stack)] =
        [x \in DOMAIN stack[Len(stack)] \cup {name} |->
            IF x = name THEN attributes ELSE stack[Len(stack)][x]]]

\* a put of name that took the stack from before to after and the errors
\* from errs to errs2 did what the claim says
PutAsClaimed(before, after, errs, errs2, name, attributes) ==
    IF Bindable(before, name, attributes.kind)
    THEN after = BoundInTop(before, name, attributes) /\ errs2 = errs
    ELSE /\ after = before
         /\ Len(errs2) = Len(errs) + 1
         /\ SubSeq(errs2, 1, Len(errs)) = errs
         /\ errs2[Len(errs2)].code = "E0003"
         /\ errs2[Len(errs2)].name = name

\* the step of the pass that visits a Declaration or a FunctionDefinition
\* (which opens the function's scope on top of what put left)
PutStepAsClaimed ==
    LET node == Head(frames).node
    IN  /\ Visiting({"decl"}) =>
              PutAsClaimed(scope_stack, scope_stack', errors, errors',
                           node.name, VariableAttributes(node.ty, offset))
        /\ Visiting({"fdef"}) =>
              PutAsClaimed(scope_stack,
                           SubSeq(scope_stack', 1, Len(scope_stack)),
                           errors, errors',
                           node.name, FunctionAttributes(node.rt))

\* the step that looks a name up leaves on the node what the claim says
\* lookup returns
LookupStepAsClaimed ==
    Visiting({"assign", "ref", "call"}) =>
        annotations'[Len(annotations')].attributes
            = InnermostBinding(scope_stack, Head(frames).node.name)

\* C11: put binds the name in the top scope if and only if the name is not
\* in the top scope and every outer scope that binds it binds it to
\* attributes of the same kind; otherwise it reports a name error and leaves
\* every scope unchanged.  lookup returns the binding of the innermost scope
\* that contains the name, or None when no scope does.
C11_PutAndLookup == [][PutStepAsClaimed /\ LookupStepAsClaimed]_vars

HasError(message) ==
    \E i \in 1..Len(errors) : errors[i].message = message

\* a pass that saw put refuse a name of the top scope and a name of another
\* kind, put bind a name, and lookup find that name
C11_Witness ==
    /\ sympc = "done"
    /\ HasError("is already defined")
    /\ HasError("redeclared as different kind of symbol")
    /\ \E i \in 1..Len(annotations) :
          annotations[i].attributes.kind = "variable"

\* the nodes below a node, in source order
SubNodes(node) ==
    CASE node.k = "fdef" -> node.params \o <<node.body>>
      [] node.k = "compound" -> node.decls \o node.stmts
      [] node.k = "decl" -> node.oinit
      [] node.k = "assign" -> <<node.e>>
      [] node.k = "if" -> <<node.c, node.t>> \o node.oel
      [] node.k = "while" -> <<node.c, node.s>>
      [] node.k = "for" -> node.oinit \o node.ocond \o node.ostep \o <<node.s>>
      [] node.k = "return" -> node.oe
      [] node.k = "bin" -> <<node.l, node.r>>
      [] node.k = "un" -> <<node.e>>
      [] node.k = "call" -> node.args
      [] OTHER -> <<>>

RECURSIVE AllNodes(_)
\* every node of a list of trees, in preorder
AllNodes(nodes) ==
    IF nodes = <<>> THEN <<>>
    ELSE <<Head(nodes)>> \o AllNodes(SubNodes(Head(nodes)))
         \o AllNodes(Tail(nodes))

IsNamedUse(n) == n.k \in {"ref", "call"}

ErrorReportedFor(code, name) ==
    \E i \in 1..Len(errors) : errors[i].code = code /\ errors[i].name = name

\* C12: after the symbol pass, every Reference node and every FunctionCall
\* node carries resolved attributes or a name error E0003 was reported for
\* it.
C12_EveryUseResolvedOrReported ==
    sympc = "done" =>
        LET uses == SelectSeq(AllNodes(unit), IsNamedUse)
            seen == SelectSeq(annotations, IsNamedUse)
        IN  /\ Len(seen) = Len(uses)
            /\ \A i \in 1..Len(uses) :
                  /\ seen[i].k = uses[i].k
                  /\ seen[i].name = uses[i].name
                  /\ \/ seen[i].attributes # NoAttributes
                     \/ ErrorReportedFor("E0003", uses[i].name)

\* a finished pass with a resolved call whose argument is not declared
C12_Witness ==
    /\ sympc = "done"
    /\ \E i \in 1..(Len(annotations) - 1) :
          /\ annotations[i].k = "call"
          /\ annotations[i].attributes.kind = "function"
          /\ annotations[i + 1].k = "ref"
          /\ annotations[i + 1].attributes = NoAttributes
          /\ ErrorReportedFor("E0003", annotations[i + 1].name)

\* the type pass has ended, by returning or by raising
TypePassEnded == typc \in {"done", "aborted"}

HasTypeError == \E i \in 1..Len(errors) : errors[i].code = "E0004"

IsReturnValue(n) == n.k = "return" /\ n.oe # <<>>
IsBareReturn(n) == n.k = "return" /\ n.oe = <<>>
IsCall(n) == n.k = "call"
IsFunctionDefinition(n) == n.k = "fdef"
IsLogged(kinds, entry) == entry.k \in kinds
IsLoggedExpression(entry) == entry.k \in {"const", "ref", "bin", "un", "call"}
IsLoggedAssignment(entry) == entry.k = "assign"
IsLoggedReturn(entry) == entry.k = "return"

RECURSIVE DeclaredReturnTypes(_)
\* for every "return e" of the functions of a unit, in source order, the
\* declared return type of the function it is in
DeclaredReturnTypes(fdefs) ==
    IF fdefs = <<>> THEN <<>>
    ELSE [i \in 1..Len(SelectSeq(AllNodes(<<Head(fdefs)>>), IsReturnValue)) |->
             Head(fdefs).rt]
         \o DeclaredReturnTypes(Tail(fdefs))

\* C13: after the type pass, if no type error was reported, every
\* expression node has a type, every Assignment's target type equals its
\* expression's type, and the expression of every "return e" has the
\* declared return type of the enclosing function.
C13_NoTypeErrorMeansWellTyped ==
    (typc = "done" /\ ~HasTypeError) =>
        LET expressions == SelectSeq(typed.log, IsLoggedExpression)
            assignments == SelectSeq(typed.log, IsLoggedAssignment)
            returns == SelectSeq(typed.log, IsLoggedReturn)
            declared == DeclaredReturnTypes(SelectSeq(unit, IsFunctionDefinition))
        IN  /\ Len(expressions) = Len(SelectSeq(AllNodes(unit), IsExpression))
            /\ \A i \in 1..Len(expressions) : expressions[i].type # NoType
            /\ \A i \in 1..Len(assignments) :
                  assignments[i].type = assignments[i].other
            /\ Len(returns) = Len(declared)
            /\ \A i \in 1..Len(returns) : returns[i].type = declared[i]

\* a pass without type error over x = <binary expression with a call>
C13_Witness ==
    /\ typc = "done"
    /\ ~HasTypeError
    /\ \E i, j, n \in 1..Len(typed.log) :
          /\ typed.log[i].k = "assign"
          /\ typed.log[j].k = "bin"
          /\ typed.log[n].k = "call"

\* the declared return types of the functions with a "return;"
BareReturnTypes ==
    {unit[i].rt : i \in {j \in 1..Len(unit) :
                            /\ unit[j].k = "fdef"
                            /\ SelectSeq(AllNodes(<<unit[j]>>), IsBareReturn) # <<>>}}

HasErrorMessage(message) ==
    \E i \in 1..Len(errors) : errors[i].message = message

ParametersOf(name) ==
    LET defs == {i \in 1..Len(unit) : unit[i].k = "fdef" /\ unit[i].name = name}
    IN  unit[CHOOSE i \in defs : TRUE].params

IsUserFunction(name) ==
    \E i \in 1..Len(unit) : unit[i].k = "fdef" /\ unit[i].name = name

\* a call whose argument count is not the callee's parameter count, or one
\* of whose constant arguments has not the type of its parameter
Miscalled(call) ==
    /\ IsUserFunction(call.name)
    /\ \/ Len(call.args) # Len(ParametersOf(call.name))
       \/ \E i \in 1..Len(call.args) :
             /\ call.args[i].k = "const"
             /\ call.args[i].val.ty # ParametersOf(call.name)[i].ty

\* a call of print all of whose arguments are constants
IsPrintOfConstants(n) ==
    /\ n.k = "call"
    /\ n.name = "print"
    /\ \A i \in 1..Len(n.args) : n.args[i].k = "const"

\* C15: a call of a user function with a wrong number of arguments or an
\* argument of a wrong type gets a type error; a call of print gets none
\* whatever its arguments.
C15_CallArgumentsChecked ==
    (TypePassEnded /\ unit[2].body.stmts[1].k = "call") =>
        /\ Miscalled(unit[2].body.stmts[1]) => HasTypeError
        /\ IsPrintOfConstants(unit[2].body.stmts[1]) => ~HasTypeError

RECURSIVE AfterRecovery(_)
\* the tokens from the next ";" or "{" on
AfterRecovery(toks) ==
    IF toks = <<>> \/ Head(toks) \in {";", "{"} THEN toks
    ELSE AfterRecovery(Tail(toks))

RECURSIVE SeparateSyntaxErrors(_)
\* the number of unexpected tokens of a token sequence, those between an
\* unexpected token and the next ";" or "{" not counted
SeparateSyntaxErrors(toks) ==
    IF toks = <<>> THEN 0
    ELSE IF Head(toks) = "x"
    THEN 1 + SeparateSyntaxErrors(AfterRecovery(Tail(toks)))
    ELSE SeparateSyntaxErrors(Tail(toks))

\* the syntax errors of a source: its unexpected tokens and its unexpected end
SyntaxErrorsOf(src) ==
    SeparateSyntaxErrors(src.tokens) + (IF src.complete THEN 0 ELSE 1)

RecordedSyntaxErrors ==
    Len(SelectSeq(errors, LAMBDA e : e.code = "E0001"))

\* C16: in the default configuration (immediate mode) lexical and syntax
\* errors do not stop the parse: the parse goes on to its end, a source
\* with k separate syntax errors yields k recorded errors and error_count
\* = k, and the pipeline stops only after the parse has ended.
C16_ParseContinuesPastErrors ==
    ~collect_mode =>
        /\ parpc # "aborted"
        /\ parpc \in {"parsed", "exited", "accepted"} =>
              /\ error_count = SyntaxErrorsOf(source)
              /\ RecordedSyntaxErrors = SyntaxErrorsOf(source)

\* a report in immediate mode: it is the first, it is recorded and raises
ImmediateReport ==
    /\ errors = <<>>
    /\ Len(errors') = 1
    /\ reppc' = "raised"

\* a report in collect mode: it does not raise; below the cap the error is
\* recorded after the others, at the cap the errors stay as they are
CollectedReport ==
    /\ reppc' # "raised"
    /\ Len(errors') <= max_errors
    /\ Len(errors) < max_errors =>
          /\ Len(errors') = Len(errors) + 1
          /\ SubSeq(errors', 1, Len(errors)) = errors
    /\ Len(errors) >= max_errors => errors' = errors

\* C17: in immediate mode the first reported error raises, so the
\* collector never holds more than one error and nothing is reported after
\* it; in collect mode a report never raises, the recorded errors never
\* exceed max_errors, and an error reported at the cap is dropped and
\* leaves the recorded errors unchanged.
C17_ImmediateRaisesCollectCaps ==
    [][IF collect_mode THEN CollectedReport ELSE ImmediateReport]_vars

\* collect mode with the cap reached and at least one error dropped
C17_Witness ==
    /\ collect_mode
    /\ Len(errors) = max_errors
    /\ reported > 2 * max_errors
    /\ reppc = "running"

\* the line that opens the function line i of the output belongs to: the
\* last "define" at or before it (0: the line is before every function)
FunctionStart(out, i) ==
    IF \E j \in 1..i : out[j].kind = "define"
    THEN CHOOSE j \in 1..i :
             /\ out[j].kind = "define"
             /\ \A k \in (j + 1)..i : out[k].kind # "define"
    ELSE 0

\* how many numeric names the function of line i defines before line i
DefinedBefore(out, i) ==
    Cardinality({j \in (FunctionStart(out, i) + 1)..(i - 1) : out[j].def > 0})

\* C18: within each emitted function body the numeric names are defined
\* in the order 1, 2, 3, ... without gap or repeat - the i-th name defined
\* in emission order is %i, whether the line is an alloca, a conversion, a
\* printf call or any other instruction -, every numeric name a line uses
\* is defined by an earlier line of the same function, and the numbering
\* starts again at 1 in each function.
C18_NamesNumberedInOrder ==
    \A i \in 1..Len(emitter.output) :
        /\ emitter.output[i].def > 0 =>
              emitter.output[i].def = DefinedBefore(emitter.output, i) + 1
        /\ \A o \in 1..Len(emitter.output[i].operands) :
              emitter.output[i].operands[o].n
                  <= DefinedBefore(emitter.output, i)

Conversions == {"trunc", "sitofp", "zext", "ptrtoint"}

\* a finished module in which one function body has an alloca, a
\* conversion and a printf call that uses numeric names, and a later
\* function defines names of its own
C18_Witness ==
    /\ empc = "done"
    /\ \E p \in {i \in 1..Len(emitter.output) :
                     /\ emitter.output[i].op = "printf"
                     /\ Len(emitter.output[i].operands) > 1} :
          /\ emitter.output[p].operands[2].n > 0
          /\ \E c \in FunctionStart(emitter.output, p)..p :
                 /\ emitter.output[c].op \in Conversions
                 /\ \E a \in FunctionStart(emitter.output, p)..c :
                        emitter.output[a].op = "alloca"
          /\ \E d \in p..Len(emitter.output) :
                 /\ emitter.output[d].def > 1
                 /\ FunctionStart(emitter.output, d) > p

\* the lines of the output that are of a kind, or have an opcode
LinesOfKind(out, kind) == {i \in 1..Len(out) : out[i].kind = kind}
LinesWithOp(out, op) == {i \in 1..Len(out) : out[i].op = op}

\* the globals that hold the format string of a printf call
GlobalsOf(out, format) ==
    {i \in LinesWithOp(out, "format") : out[i].format = format}

SaraTypes == {"int", "char", "string", "float"}

\* C20: in one emitted module the declaration of printf appears exactly
\* once if some function contains a call of print and not at all
\* otherwise, and for each distinct print format signature (the sequence
\* of the argument types, the empty one included: distinct types have
\* distinct specifiers) exactly one format-string global is emitted,
\* which every print call with that signature uses, however many there
\* are and in whatever functions.
C20_OneDeclarationOneGlobalPerFormat ==
    empc # "ready" =>
        /\ Cardinality(LinesOfKind(emitter.output, "declare")) =
               (IF print_called(mir_functions) THEN 1 ELSE 0)
        /\ \A t1, t2 \in SaraTypes :
               get_format_specifier(t1) = get_format_specifier(t2) => t1 = t2
        /\ \A p \in LinesWithOp(emitter.output, "printf") :
               /\ Cardinality(GlobalsOf(emitter.output,
                                        emitter.output[p].format)) = 1
               /\ \A g \in GlobalsOf(emitter.output,
                                     emitter.output[p].format) :
                      emitter.output[g].global = emitter.output[p].global
        /\ \A g \in LinesWithOp(emitter.output, "format") :
               \E p \in LinesWithOp(emitter.output, "printf") :
                   emitter.output[p].format = emitter.output[g].format

\* a finished module in which two functions print with the same format,
\* one of them prints with that format twice, and a print without
\* arguments is among the calls
C20_Witness ==
    /\ empc = "done"
    /\ \E p, q, r, n \in LinesWithOp(emitter.output, "printf") :
          /\ emitter.output[p].format = emitter.output[q].format
          /\ emitter.output[q].format = emitter.output[r].format
          /\ emitter.output[p].format # <<>>
          /\ p < q /\ q < r
          /\ FunctionStart(emitter.output, p) =
                 FunctionStart(emitter.output, q)
          /\ FunctionStart(emitter.output, q) <
                 FunctionStart(emitter.output, r)
          /\ emitter.output[n].format = <<>>

\* the emitter is at a call of a user function
AtUserCall ==
    /\ empc = "instruction"
    /\ CurrentInstruction.op = "call"
    /\ CurrentInstruction.args[1] # "print"

\* the parameters the function called at the current instruction declares
DeclaredParameters ==
    expected_param_count(mir_functions, CurrentInstruction.args[1])

\* the step of a call that takes the last N queued values, N the number of
\* parameters the callee declares, passes them in the order they were
\* queued and leaves the values queued before them as they were
CallTakesItsParameters ==
    /\ Len(emitter.pending_params) >= DeclaredParameters
    /\ emitter'.pending_params =
           DropLastN(emitter.pending_params, DeclaredParameters)
    /\ emitter'.output[Len(emitter'.output)].op = "call"
    /\ emitter'.output[Len(emitter'.output)].operands =
           LastN(emitter.pending_params, DeclaredParameters)

\* C19: a call of a user function with N declared parameters removes
\* exactly the N most recently queued param values and passes them in
\* source order, the values queued before them for an enclosing call stay
\* queued in their order, and the queue of values and the queue of their
\* types always have the same length.
C19_CallTakesItsParameters ==
    /\ [](Len(emitter.pending_params) = Len(emitter.pending_param_types))
    /\ [][AtUserCall => CallTakesItsParameters]_vars

\* the operators of two characters and their token types
TwoCharacterOperators ==
    {Fixed("LE", <<"<", "=">>), Fixed("GE", <<">", "=">>),
     Fixed("EQUAL", <<"=", "=">>), Fixed("NOT_EQUAL", <<"!", "=">>)}

\* the two-character operator the input has at the place the scanner is
\* at
OperatorAhead(o) ==
    /\ lexpc = "lexing"
    /\ MatchLength(o, lexdata, SkipIgnored(lexdata, lexpos)) = 2

\* C21: the lexer recognizes a two-character operator before its
\* one-character prefix: where the input has "<=", ">=", "==" or "!=" the
\* next token is the single token LE, GE, EQUAL or NOT_EQUAL, with both
\* characters consumed (never NOT followed by ASSIGN).
C21_TwoCharacterOperatorFirst ==
    [][\A o \in TwoCharacterOperators :
          OperatorAhead(o) =>
              /\ Len(lexed') = Len(lexed) + 1
              /\ lexed'[Len(lexed')].type = o.name
              /\ lexed'[Len(lexed')].value = o.text
              /\ lexpos' = SkipIgnored(lexdata, lexpos) + 2]_vars

\* the rank of a numeric type in the order float > int > char
Width(t) == CASE t = "char" -> 1 [] t = "int" -> 2 [] t = "float" -> 3

\* the wider of two numeric types
Wider(a, b) == IF Width(a) >= Width(b) THEN a ELSE b

NumericTypes == {"char", "int", "float"}

\* C22: over char, int and float generalize_type returns the wider of its
\* two arguments in the order float > int > char, so it is commutative,
\* idempotent and associative; it returns None whenever an argument is
\* string, void or missing.
C22_GeneralizeIsTheWider ==
    genpc = "done" =>
        /\ IF type_a \in NumericTypes /\ type_b \in NumericTypes
           THEN /\ generalized.ab = Wider(type_a, type_b)
                /\ generalized.ba = generalized.ab
           ELSE generalized.ab = NoType /\ generalized.ba = NoType
        /\ generalized.aa = (IF type_a \in NumericTypes THEN type_a ELSE NoType)
        /\ {type_a, type_b, type_c} \subseteq NumericTypes =>
               /\ generalized.ab_c = generalized.a_bc
               /\ generalized.ab_c = Wider(Wider(type_a, type_b), type_c)
        /\ ~({type_a, type_b, type_c} \subseteq NumericTypes) =>
               generalized.ab_c = NoType /\ generalized.a_bc = NoType

\* generalize_type was applied to three different numeric types, the
\* widest in the middle
C22_Witness ==
    /\ genpc = "done"
    /\ type_a = "char"
    /\ type_b = "float"
    /\ type_c = "int"
    /\ generalized.ab_c = "float"

\* the function definition's body starts with an if statement
StartsWithIf ==
    /\ Len(ast.body.stmts) > 0
    /\ ast.body.stmts[1].k = "if"

\* a statement that ends in return: a return, or a block whose last
\* statement ends in return
RECURSIVE EndsInReturn(_)
EndsInReturn(s) ==
    \/ s.k = "return"
    \/ /\ s.k = "compound"
       /\ Len(s.stmts) > 0
       /\ EndsInReturn(s.stmts[Len(s.stmts)])

\* the generator right after the if statement the body starts with: its
\* current block is where the statements that follow are lowered
AfterFirstIf == visit_if(EnterFunction(ast), ast.body.stmts[1])

\* C23: for "if (c) S1 [else S2]" the block current at the if ends with
\* "branch c, then, X", X being the else block when there is an else and
\* otherwise a merge block distinct from the then block, into which the
\* statements after the if are lowered, also when S1 ends in return; only
\* when both S1 and S2 end in return is there no merge block.
C23_IfBranchesToElseOrMerge ==
    (pc # "parsed" /\ StartsWithIf) =>
        LET node == ast.body.stmts[1]
            entry == BlockOf(lowered, "entry").instructions
            last == entry[Len(entry)]
            then_block == last.args[2]
            other == last.args[3]
            merge == AfterFirstIf.cur
        IN  /\ last.op = "branch"
            /\ Len(last.args) = 3
            /\ other # then_block
            /\ HasBlock(lowered, other)
            /\ Len(node.oel) = 0 => merge = other
            /\ (Len(node.oel) > 0
                /\ ~(EndsInReturn(node.t) /\ EndsInReturn(node.oel[1]))) =>
                   /\ merge \notin {"entry", then_block, other}
                   /\ BlockOf(AfterFirstIf, merge).instructions = <<>>

\* the function definition's body starts with a while statement
StartsWithWhile ==
    /\ Len(ast.body.stmts) > 0
    /\ ast.body.stmts[1].k = "while"

RECURSIVE AssignmentsIn(_)
RECURSIVE AssignmentsInList(_, _)
\* the number of assignments a statement is made of
AssignmentsIn(s) ==
    CASE s.k = "assign" -> 1
      [] s.k = "compound" -> AssignmentsInList(s.stmts, 1)
      [] s.k \in {"while", "for"} -> AssignmentsIn(s.s)
      [] s.k = "if" ->
             AssignmentsIn(s.t)
             + (IF Len(s.oel) > 0 THEN AssignmentsIn(s.oel[1]) ELSE 0)
      [] OTHER -> 0

AssignmentsInList(stmts, i) ==
    IF i > Len(stmts) THEN 0
    ELSE AssignmentsIn(stmts[i]) + AssignmentsInList(stmts, i + 1)

\* the number of store instructions of a function
StoresOf(f) ==
    Cardinality({p \in (1..Len(f.blocks)) \X (1..MaxStores + 1) :
                    /\ p[2] <= Len(f.blocks[p[1]].instructions)
                    /\ f.blocks[p[1]].instructions[p[2]].op = "store"})

\* the generator right after the while statement the body starts with
AfterFirstWhile == visit_while(EnterFunction(ast), ast.body.stmts[1])

\* C24: for "while (c) S" the block current before the loop ends with
\* "jump cond"; the cond block evaluates c and ends with "branch c, body,
\* merge"; the body path holds the lowering of S (for a compound S the
\* instructions of each of its statements, e.g. the stores of its
\* assignments) and ends with "jump cond"; lowering continues in merge.
C24_WhileLowersItsBody ==
    (pc # "parsed" /\ StartsWithWhile) =>
        LET node == ast.body.stmts[1]
            g == AfterFirstWhile
            entry == BlockOf(lowered, "entry").instructions
            cond_block == entry[Len(entry)].args[1]
            cond == BlockOf(lowered, cond_block).instructions
            branch == cond[Len(cond)]
        IN  /\ entry[Len(entry)] = Jump(cond_block)
            /\ HasBlock(lowered, cond_block)
            /\ Len(cond) >= 2
            /\ branch.op = "branch"
            /\ branch.args[1] = cond[Len(cond) - 1].res
            /\ Cardinality({"entry", cond_block, branch.args[2],
                            branch.args[3]}) = 4
            /\ g.cur = branch.args[3]
            /\ BlockOf(g, g.cur).instructions = <<>>
            /\ \E i \in 1..Len(g.blocks) :
                  /\ g.blocks[i].label \notin {"entry", cond_block, g.cur}
                  /\ Len(g.blocks[i].instructions) > 0
                  /\ g.blocks[i].instructions[Len(g.blocks[i].instructions)]
                        = Jump(cond_block)
            /\ StoresOf(g) = AssignmentsIn(node.s)

\* the labels a block's terminator names
TerminatorTargets(b) ==
    IF HasTerminator(b) THEN InstructionTargets(Terminator(b)) ELSE {}

SeqRange(s) == {s[i] : i \in 1..Len(s)}

\* the successors and predecessors lists of every block of f hold the
\* blocks its terminator names and the blocks whose terminator names it
ListsAgree(f) ==
    \A i \in 1..Len(f.blocks) :
        /\ SeqRange(f.blocks[i].successors)
              = {l \in TerminatorTargets(f.blocks[i]) : HasBlock(f, l)}
        /\ SeqRange(f.blocks[i].predecessors)
              = {f.blocks[j].label : j \in
                    {k \in 1..Len(f.blocks) :
                        f.blocks[i].label \in TerminatorTargets(f.blocks[k])}}

\* the labels reached from entry only through a jump or branch that
\* stands behind another terminator of its block
BehindTerminatorOnly(f) ==
    ReachFrom(build_cfg(f), {}, {EntryLabel(f)}) \ ExecReachable(f)

\* C25: after optimize every block left in the function is reachable from
\* the entry block along the targets of the blocks' terminators, the
\* successors and predecessors lists agree with those terminators, and a
\* block that was reachable only through a jump behind another terminator
\* is removed.
C25_OptimizedBlocksReachable ==
    pc = "optimized" =>
        /\ \A i \in 1..Len(optimized.blocks) :
              optimized.blocks[i].label \in ExecReachable(optimized)
        /\ ListsAgree(optimized)
        /\ \A l \in BehindTerminatorOnly(lowered) : ~HasBlock(optimized, l)

\* the variables a load of ins reads
LoadedVariables(ins) ==
    {ins[j].args[1] : j \in {k \in 1..Len(ins) : ins[k].op = "load"}}

\* the places of ins that hold a store to variable v
StoresTo(ins, v) ==
    {j \in 1..Len(ins) : ins[j].op = "store" /\ ins[j].args[1] = v}

\* the last store to each variable that ins never loads
LastUnloadedStores(ins) ==
    {j \in 1..Len(ins) :
        /\ ins[j].op = "store"
        /\ ins[j].args[1] \notin LoadedVariables(ins)
        /\ \A k \in StoresTo(ins, ins[j].args[1]) : k <= j}

RECURSIVE Without(_, _, _)
\* ins from place i on without the places in gone, in order
Without(ins, gone, i) ==
    IF i > Len(ins) THEN <<>>
    ELSE (IF i \in gone THEN <<>> ELSE <<ins[i]>>) \o Without(ins, gone, i + 1)

RECURSIVE TopExpressions(_)
RECURSIVE TopExpressionsOfAll(_, _)
\* the top-level expressions (or their arenas) a statement holds, in order
TopExpressions(node) ==
    CASE IsExpression(node) \/ node.k = "dag" -> <<node>>
      [] node.k = "assign" -> TopExpressions(node.e)
      [] node.k = "return" -> TopExpressionsOfAll(node.oe, 1)
      [] node.k = "if" ->
            TopExpressions(node.c) \o TopExpressions(node.t)
            \o TopExpressionsOfAll(node.oel, 1)
      [] node.k = "while" -> TopExpressions(node.c) \o TopExpressions(node.s)
      [] node.k = "for" ->
            TopExpressionsOfAll(node.oinit, 1)
            \o TopExpressionsOfAll(node.ocond, 1)
            \o TopExpressionsOfAll(node.ostep, 1) \o TopExpressions(node.s)
      [] node.k = "decl" -> TopExpressionsOfAll(node.oinit, 1)
      [] node.k = "compound" ->
            TopExpressionsOfAll(node.decls, 1)
            \o TopExpressionsOfAll(node.stmts, 1)
      [] node.k = "fdef" -> TopExpressions(node.body)
      [] OTHER -> <<>>

TopExpressionsOfAll(s, i) ==
    IF i > Len(s) THEN <<>>
    ELSE TopExpressions(s[i]) \o TopExpressionsOfAll(s, i + 1)

\* the child slots of the nodes of an arena: the operands of its operators
\* and the arguments of its calls, as (node, slot) -> the node held
SlotsOf(n) ==
    CASE n.k \in {"un", "bin"} -> n.children
      [] n.k = "call" -> n.arguments
      [] OTHER -> <<>>

RECURSIVE NodesBelow(_, _)
\* the nodes of the DAG under node id, id included
NodesBelow(nodes, id) ==
    {id} \cup UNION {NodesBelow(nodes, SlotsOf(nodes[id])[i]) :
                        i \in 1..Len(SlotsOf(nodes[id]))}

\* the nodes the child slots inside the expression refer to
SlotTargets(d) ==
    UNION {{SlotsOf(d.nodes[id])[i] : i \in 1..Len(SlotsOf(d.nodes[id]))} :
           id \in NodesBelow(d.nodes, d.root)}

\* two child slots with the same canonical key refer to the same object
SameKeySameObject(d) ==
    \A x, y \in SlotTargets(d) :
        canonical_key(d.nodes, x) = canonical_key(d.nodes, y) => x = y

\* the canonical key of an expression as the parser built it
KeyOfTree(e) == canonical_key(ToArena(<<>>, e).nodes, ToArena(<<>>, e).id)

\* C27: after the AST optimizer has processed a top-level expression, any
\* two child slots inside it whose subexpressions have the same canonical
\* key refer to the same node object, the unfolded DAG has the canonical
\* key of the original expression, and no statement node has anything
\* changed other than the children of its expressions.
C27_EqualKeysAreOneObject ==
    dagpc = "done" =>
        LET before == TopExpressions(dag_in)
            after == TopExpressions(dag_out)
        IN  /\ Len(after) = Len(before)
            /\ \A i \in 1..Len(after) :
                  /\ after[i].k = "dag"
                  /\ SameKeySameObject(after[i])
                  /\ canonical_key(after[i].nodes, after[i].root)
                        = KeyOfTree(before[i])
            /\ AcceptChildren(dag_out, "leave out")
                  = AcceptChildren(dag_in, "leave out")

\* the call instructions of a function
CallsOf(f) ==
    SelectSeq(AllInstructions(f), LAMBDA instr : instr.op = "call")

\* C29: DAG sharing does not change the lowered MIR: lowering the function
\* after the AST optimizer gives the same blocks with the same
\* instructions, operands and temporaries as lowering it before, a shared
\* node being lowered again at each use.
C29_SharingKeepsLoweredMir ==
    (dagpc = "lowered" /\ mir_before # NoFunction) => mir_after = mir_before

\* the expression is f(x) + f(x) for some argument: the optimizer made its
\* two operand slots one call object, and both lowerings call f twice
C29_Witness ==
    /\ dagpc = "lowered"
    /\ mir_before # NoFunction
    /\ \E i \in 1..Len(TopExpressions(dag_out)) :
          LET d == TopExpressions(dag_out)[i]
              root == d.nodes[d.root]
          IN  /\ root.k = "bin"
              /\ root.children[1] = root.children[2]
              /\ d.nodes[root.children[1]].k = "call"
    /\ Len(CallsOf(mir_after)) = 2
    /\ Len(CallsOf(mir_before)) = 2

\* the operands of an instruction that are temporaries
TempOperands(instr) ==
    CASE instr.op \in {"store"} -> {instr.args[2]}
      [] instr.op \in {"branch", "retval", "param"} -> {instr.args[1]}
      [] instr.op \in {"load", "const", "jump", "return", "call"} -> {}
      [] OTHER -> {instr.args[i] : i \in 1..Len(instr.args)}

\* C30: every instruction emitted by lowering has an op of the MIR
\* operation set, for every operator the parser accepts, the unary prefix
\* + included; and every temporary is the result of exactly one
\* instruction of its function, which stands before every instruction that
\* uses it.
C30_LoweredOpsAndTemporaries ==
    pc # "parsed" =>
        LET ins == AllInstructions(lowered)
        IN  /\ \A i \in 1..Len(ins) : ins[i].op \in Op
            /\ \A i \in 1..Len(ins) : \A t \in TempOperands(ins[i]) :
                  /\ Cardinality({j \in 1..Len(ins) : ins[j].res = t}) = 1
                  /\ \E j \in 1..(i - 1) : ins[j].res = t

(***************************************************************************)
(* Executing a MIR function.  The machine holds the values of the          *)
(* temporaries and of the variables, the values passed by param since the  *)
(* last call, the calls made so far and the steps it may still take.  A    *)
(* variable holds whatever memory held until it is stored to: memory is    *)
(* part of the input.                                                      *)
(***************************************************************************)
MaxSteps == 60

Outcome(kind, value, calls) == [kind |-> kind, value |-> value, calls |-> calls]

Machine(memory) ==
    [temps |-> [t \in {} |-> 0], vars |-> memory, params |-> <<>>,
     calls |-> <<>>, fuel |-> MaxSteps]

Holds(map, key) == IF key \in DOMAIN map THEN map[key] ELSE 0

Truth(b) == IF b THEN 1 ELSE 0

Computed(op, a, b) ==
    CASE op = "add" -> a + b
      [] op = "sub" -> a - b
      [] op = "mul" -> a * b
      [] op = "eq" -> Truth(a = b)
      [] op = "ne" -> Truth(a # b)
      [] op = "lt" -> Truth(a < b)
      [] op = "le" -> Truth(a <= b)
      [] op = "gt" -> Truth(a > b)
      [] op = "ge" -> Truth(a >= b)

\* what a called function returns: its first argument plus one
Returned(args) == IF Len(args) > 0 THEN args[1] + 1 ELSE 0

RECURSIVE Execute(_, _, _, _)
\* the run of f from instruction i of block label
Execute(f, label, i, m) ==
    IF m.fuel = 0 THEN Outcome("out of steps", 0, m.calls)
    ELSE IF ~HasBlock(f, label) THEN Outcome("no block", 0, m.calls)
    ELSE IF i > Len(BlockOf(f, label).instructions)
    THEN Outcome("no terminator", 0, m.calls)
    ELSE
    LET instr == BlockOf(f, label).instructions[i]
        n == [m EXCEPT !.fuel = @ - 1]
        arg(j) == Holds(m.temps, instr.args[j])
        next(v) == Execute(f, label, i + 1,
                           [n EXCEPT !.temps = Bind(@, instr.res, v)])
    IN  CASE instr.op = "const" -> next(ToNumber(instr.val).n)
          [] instr.op = "load" -> next(Holds(m.vars, instr.args[1]))
          [] instr.op = "store" ->
                Execute(f, label, i + 1,
                        [n EXCEPT !.vars = Bind(@, instr.args[1], arg(2))])
          [] instr.op = "neg" -> next(-arg(1))
          [] instr.op = "not" -> next(Truth(arg(1) = 0))
          [] instr.op = "param" ->
                Execute(f, label, i + 1,
                        [n EXCEPT !.params = Append(@, arg(1))])
          [] instr.op = "call" ->
                Execute(f, label, i + 1,
                        [n EXCEPT !.temps = Bind(@, instr.res,
                                                 Returned(m.params)),
                                  !.params = <<>>,
                                  !.calls = Append(@, [name |-> instr.args[1],
                                                       args |-> m.params])])
          [] instr.op = "jump" -> Execute(f, instr.args[1], 1, n)
          [] instr.op = "branch" ->
                Execute(f, IF arg(1) # 0 THEN instr.args[2]
                           ELSE instr.args[3], 1, n)
          [] instr.op = "return" -> Outcome("returned", 0, m.calls)
          [] instr.op = "retval" -> Outcome("returned", arg(1), m.calls)
          [] instr.op \in {"add", "sub", "mul"} \cup ComparisonOps ->
                next(Computed(instr.op, arg(1), arg(2)))
          [] OTHER -> Outcome("unknown op", 0, m.calls)

\* what memory may hold where the variables are
Memories == [{"s", "n"} -> {0, 3}]

Behaviour(f, memory) == Execute(f, EntryLabel(f), 1, Machine(memory))

\* a store of the function before optimize whose variable is loaded in a
\* block reachable from the block of the store, that block included
LiveStores(f) ==
    {p \in (1..Len(f.blocks)) \X (1..MaxSteps) :
        /\ p[2] <= Len(f.blocks[p[1]].instructions)
        /\ f.blocks[p[1]].instructions[p[2]].op = "store"
        /\ \E l \in ReachFrom(build_cfg(f), {}, {f.blocks[p[1]].label}) :
              f.blocks[p[1]].instructions[p[2]].args[1]
                  \in LoadedVariables(BlockOf(f, l).instructions)}

\* C28: optimize preserves the observable behaviour: for every input the
\* optimized function returns the same value after the same calls with
\* the same arguments as the function lowering produced; in particular no
\* store is removed whose variable is loaded in a block reachable from the
\* block of the store.
C28_OptimizePreservesBehaviour ==
    pc = "optimized" =>
        /\ \A memory \in Memories :
              Behaviour(optimized, memory) = Behaviour(lowered, memory)
        /\ \A p \in LiveStores(lowered) :
              LET b == lowered.blocks[p[1]]
              IN  /\ HasBlock(optimized, b.label)
                  /\ \E j \in 1..Len(BlockOf(optimized, b.label).instructions) :
                        LET kept == BlockOf(optimized, b.label).instructions[j]
                        IN  /\ kept.op = "store"
                            /\ kept.args = b.instructions[p[2]].args

====
